---- MODULE Spec2Model ----
(***************************************************************************)
(* Verification model of the motion-path core:                             *)
(*   - the per-track parent matrix cache   (MotionPath.cpp)                *)
(*   - the composite keyframe cache        (MotionPath.cpp, Keyframe.cpp)  *)
(*   - the stroke fitter                   (MotionPathDrawContext.cpp,     *)
(*                                           MotionPathEditContext.cpp)    *)
(* Times are counted in ticks of TANGENT_TIME_DELTA (1/100 frame); frame   *)
(* numbers are whole.  A matrix is represented by the pair (time, scene     *)
(* version) it was evaluated from.                                          *)
(***************************************************************************)
EXTENDS Integers, Sequences, FiniteSets, TLC

VARIABLES
    \* ---- parent matrix cache of one track (MotionPath) ----
    openmp,              \* build defines _OPENMP (three-phase rebuild compiled in)
    scene,               \* version of the host scene the accessors evaluate
    pMatrixCache,        \* std::map<double, MMatrix>
    cachedRangeStart,
    cachedRangeEnd,
    pMatrixCacheValid,
    call                 \* history: the last request made to the cache

cacheVars == <<openmp, scene, pMatrixCache, cachedRangeStart, cachedRangeEnd,
               pMatrixCacheValid, call>>

VARIABLES
    ops,                 \* history: steps counted by SceneSpec and GestureSpec
    threePhase,          \* the three-phase rebuild under way: its phase, loop
                         \* indices and vectors, and the history of its accesses
    otherTrack,          \* the parent matrix cache of a second track (another
                         \* MotionPath object), and which of the two it is
    tangentTrip          \* one tangent of a curve key, the value read from it
                         \* and what was written back

VARIABLES
    \* ---- keyframe cache of the track and the state it is built from ----
    curves,              \* the six axis curves: the key times of each
    showRotationKeyFrames, \* GlobalSettings::showRotationKeyFrames
    displayStartTime,
    displayEndTime,
    isDrawing,
    endDrawingTime,
    selectedKeyTimes,    \* std::set<double>
    keyframesCache,      \* std::map<double, Keyframe>
    currentMode,         \* the draw tool's gesture mode
    drawn                \* history: what the last draw did to keyframesCache

keyVars == <<curves, showRotationKeyFrames, displayStartTime, displayEndTime,
             isDrawing, endDrawingTime, selectedKeyTimes, keyframesCache,
             currentMode, drawn>>

VARIABLES
    \* ---- stroke gesture of the draw tool (MotionPathDrawContext) ----
    selectedTime,        \* time of the key the gesture grabbed
    strokePoints,        \* MVectorArray: the samples of the drawn polyline
    strokeCache,         \* history: the std::vector<StrokeCache> of the last release
    fitMode              \* history: GlobalSettings::strokeMode that release read, -1: none

strokeVars == <<selectedTime, strokePoints, strokeCache, fitMode>>

VARIABLES
    \* ---- the tool's hold on the track, and what its last release did ----
    selectedMotionPathPtr, \* TRUE: the tool holds the track (pointer not NULL)
    selectedFromTool,    \* MotionPath::selectedFromTool of the track
    motionPathDrawMode,  \* GlobalSettings::motionPathDrawMode
    walk                 \* history: the candidate walk and the curve edits of
                         \* the last release

toolVars == <<selectedMotionPathPtr, selectedFromTool, motionPathDrawMode, walk>>

VARIABLES
    \* ---- what the host answers, beyond the key times of the curves ----
    hostTangents         \* the tangent reads that fail, and the keys whose
                         \* tangents are not locked

hostVars == <<hostTangents>>

VARIABLES
    \* ---- the commands on a track ----
    classified,          \* history: the last key isCurveBoundaryKey was asked about
    copied,              \* history: the last storeSelectedKeysInClipboard
    editTool             \* MotionPathEditContext: its members, and the history
                         \* of its last press

VARIABLES
    \* ---- the draw gesture of the tools ----
    drawRelease,         \* history: the last release of a draw gesture
    locked,              \* interactive locked mode: the settings, the track's
                         \* worldSpaceCallbackCalled, the buttons the host
                         \* reports, the point draw() has reached, and the
                         \* history of its refresh block
    undoCalls            \* history: the calls of the gesture under way on the
                         \* manager's undo recorder

sessionVars == <<drawRelease, locked, undoCalls>>

cmdVars == <<classified, copied, editTool, sessionVars>>

vars == <<cacheVars, ops, threePhase, otherTrack, keyVars, strokeVars, toolVars, tangentTrip, hostVars, cmdVars>>

----------------------------------------------------------------------------
\* Bounds of the model

\* cacheRange endpoints are drawn from 0..MaxLow and FarFrame
MaxLow == 2
\* framesBack / framesFront settings are drawn from 0..MaxSpan
MaxSpan == 1
\* SceneSpec follows at most MaxOps operations
MaxOps == 4
\* the threads of the OpenMP team, the owning thread among them
NumThreads == 2

\* numFrames > 50 selects the three-phase rebuild
PARALLEL_MIN_FRAMES == 50

\* a far display end: a rebuild from frame s to FarFrame has more than
\* PARALLEL_MIN_FRAMES frames exactly when s < MaxLow
FarFrame == PARALLEL_MIN_FRAMES + MaxLow - 1

\* GlobalSettings::startTime / endTime: the timeline
TimelineStart == 0
TimelineEnd == MaxLow

StartFrames == 0 .. MaxLow
EndFrames == (0 .. MaxLow) \cup {FarFrame}
EnsureTimes == 0 .. (MaxLow + 1)

\* TANGENT_TIME_DELTA is 0.01 frame: one frame is TICKS ticks
TICKS == 100
Tick(frame) == frame * TICKS

\* the display window is the frames 1..MaxTime, keys lie on the frames 0..MaxTime+1
MaxTime == 2
\* the six curves hold at most MaxKeys keys together
MaxKeys == 2
\* tangent slopes are the halves and wholes from -MaxSlope to MaxSlope,
\* tangent weights the halves and wholes up to MaxWeight
MaxSlope == 2
MaxWeight == 3
\* a stroke has at most MaxSamples samples
MaxSamples == 4
\* the track of StrokeSpec has MaxPoints keys after its first
MaxPoints == 4
\* the longer track of GestureSpec has GestureKeys keys
GestureKeys == 3
\* GestureSpec follows the tool for MaxGestureSteps steps
MaxGestureSteps == 5
\* a draw gesture adds up to MaxDrawCount keys, up to MaxDrawInterval frames apart
MaxDrawCount == 2
MaxDrawInterval == 2
\* DrawSpec follows the tool for MaxDrawSteps steps
MaxDrawSteps == 6
\* LockedSpec follows the track for MaxLockedSteps steps
MaxLockedSteps == 6
\* PasteSpec follows the track for MaxPasteSteps steps
MaxPasteSteps == 5

Range(seq) == {seq[i] : i \in 1 .. Len(seq)}
Min(a, b) == IF a < b THEN a ELSE b
Max(a, b) == IF a > b THEN a ELSE b

----------------------------------------------------------------------------
\* Parent matrix cache

\* the matrix the scene accessors give for time t in scene version s
Mat(t, s) == [time |-> t, scene |-> s]

\* getPMatrixAtTime: parent matrix plug composed with the pivots, one external
\* evaluation of the scene at time t
getPMatrixAtTime(t) == Mat(t, scene)

\* a cache being built: the map and the log of external evaluations
CacheSt(c, e) == [cache |-> c, evals |-> e]

\* the same without the test for an entry: evaluates and stores every time
ensureParentAndPivotMatrixAtTime_Always(st, t) ==
    CacheSt([u \in (DOMAIN st.cache) \cup {t} |->
                IF u = t THEN getPMatrixAtTime(t) ELSE st.cache[u]],
            Append(st.evals, t))

\* MotionPath::ensureParentAndPivotMatrixAtTime
ensureParentAndPivotMatrixAtTime(st, t) ==
    IF t \in DOMAIN st.cache
    THEN st
    ELSE CacheSt(st.cache @@ (t :> getPMatrixAtTime(t)), Append(st.evals, t))

\* for (double i = lo; i <= hi; ++i) ensureParentAndPivotMatrixAtTime(i);
\* lo, hi are frames.  The calls of one loop touch different entries, so the
\* loop is the map of the single call over the frames lo..hi, its evaluations
\* in ascending frame order.
EnsureLoop(st, lo, hi) ==
    LET frames == [k \in 1 .. (hi - lo + 1) |-> Tick(lo + k - 1)]
        evaluated(t) ==
            ensureParentAndPivotMatrixAtTime(CacheSt(st.cache, <<>>), t).evals # <<>>
    IN CacheSt([t \in (DOMAIN st.cache) \cup {Tick(f) : f \in lo .. hi} |->
                   ensureParentAndPivotMatrixAtTime(st, t).cache[t]],
               st.evals \o SelectSeq(frames, evaluated))

\* the three-phase rebuild: gather every frame from the scene, compose, write back
ThreePhaseRebuild(st, startFrame, numFrames) ==
    LET frames == [idx \in 0 .. (numFrames - 1) |-> Tick(startFrame + idx)]
        \* phase 1: one external evaluation per frame, cached or not
        parentMatrices == [idx \in 0 .. (numFrames - 1) |-> getPMatrixAtTime(frames[idx])]
        \* phase 2: pure arithmetic on the gathered inputs
        finalMatrices == [idx \in 0 .. (numFrames - 1) |-> parentMatrices[idx]]
        written == {frames[idx] : idx \in 0 .. (numFrames - 1)}
        \* phase 3: pMatrixCache[frames[idx]] = finalMatrices[idx]
        newCache == [t \in (DOMAIN st.cache) \cup written |->
                        IF t \in written
                        THEN finalMatrices[CHOOSE idx \in 0 .. (numFrames - 1) :
                                               frames[idx] = t]
                        ELSE st.cache[t]]
    IN CacheSt(newCache,
               st.evals \o [k \in 1 .. numFrames |-> frames[k - 1]])

FullRebuild(st, startFrame, endFrame) ==
    LET numFrames == endFrame - startFrame + 1
    IN IF openmp /\ numFrames > PARALLEL_MIN_FRAMES
       THEN [st |-> ThreePhaseRebuild(st, startFrame, numFrames), path |-> "threePhase"]
       ELSE [st |-> EnsureLoop(st, startFrame, endFrame), path |-> "sequential"]

\* the incremental update without its trailing loop
IncrementalUpdate_LeadingOnly(st, startFrame, endFrame) ==
    EnsureLoop(st, startFrame, Min(cachedRangeStart - 1, endFrame))

IncrementalUpdate(st, startFrame, endFrame) ==
    LET st1 == EnsureLoop(st, startFrame, Min(cachedRangeStart - 1, endFrame))
    IN EnsureLoop(st1, cachedRangeEnd + 1, endFrame)

\* cacheParentMatrixRange(startFrame, endFrame): the state it leaves
cacheParentMatrixRange(startFrame, endFrame) ==
    LET st0 == CacheSt(pMatrixCache, <<>>)
        nonEmpty == DOMAIN pMatrixCache # {}
    IN IF pMatrixCacheValid /\ cachedRangeStart <= startFrame
          /\ cachedRangeEnd >= endFrame /\ nonEmpty
       THEN [st |-> st0, rangeStart |-> cachedRangeStart, rangeEnd |-> cachedRangeEnd,
             valid |-> pMatrixCacheValid, path |-> "covered"]
       ELSE IF pMatrixCacheValid /\ nonEmpty
       THEN [st |-> IncrementalUpdate(st0, startFrame, endFrame),
             rangeStart |-> IF startFrame < cachedRangeStart THEN startFrame
                            ELSE cachedRangeStart,
             rangeEnd |-> IF endFrame > cachedRangeEnd THEN endFrame
                          ELSE cachedRangeEnd,
             valid |-> pMatrixCacheValid, path |-> "incremental"]
       ELSE LET r == FullRebuild(st0, startFrame, endFrame)
            IN [st |-> r.st, rangeStart |-> startFrame, rangeEnd |-> endFrame,
                valid |-> TRUE, path |-> r.path]

Call(op, s, e, path, evals, ranged) ==
    [op |-> op, start |-> s, end |-> e, path |-> path, evals |-> evals,
     ranged |-> ranged]

DoCacheRange(op, startFrame, endFrame) ==
    LET r == cacheParentMatrixRange(startFrame, endFrame)
    IN /\ pMatrixCache' = r.st.cache
       /\ cachedRangeStart' = r.rangeStart
       /\ cachedRangeEnd' = r.rangeEnd
       /\ pMatrixCacheValid' = r.valid
       /\ call' = Call(op, startFrame, endFrame, r.path, r.st.evals, TRUE)
       /\ UNCHANGED <<openmp, scene>>

\* cacheRange(start, end)
CacheRange ==
    \E s \in StartFrames, e \in EndFrames : DoCacheRange("cacheRange", s, e)

\* cacheParentMatrixRange(): the window round the current frame, clamped to the timeline
CacheRangeAroundCurrent ==
    \E cur \in EnsureTimes, framesBack \in 0 .. MaxSpan, framesFront \in 0 .. MaxSpan :
        LET s0 == cur - framesBack
            e0 == cur + framesFront
            s == IF s0 < TimelineStart THEN TimelineStart ELSE s0
            e == IF e0 > TimelineEnd THEN TimelineEnd ELSE e0
        IN DoCacheRange("cacheRange", s, e)

\* ensureAtTime(t)
EnsureAtTime ==
    \E t \in EnsureTimes :
        LET st == ensureParentAndPivotMatrixAtTime(CacheSt(pMatrixCache, <<>>), Tick(t))
        IN /\ pMatrixCache' = st.cache
           /\ call' = Call("ensure", t, t,
                           IF st.evals = <<>> THEN "hit" ELSE "miss",
                           st.evals, call.ranged)
           /\ UNCHANGED <<openmp, scene, cachedRangeStart, cachedRangeEnd,
                          pMatrixCacheValid>>

\* clear() leaving the validity flag as it is
clearParentMatrixCache_KeepsValid ==
    /\ pMatrixCache' = <<>>
    /\ call' = Call("clear", 0, 0, "none", <<>>, FALSE)
    /\ UNCHANGED <<openmp, scene, cachedRangeStart, cachedRangeEnd,
                   pMatrixCacheValid>>

\* clear()
clearParentMatrixCache ==
    /\ pMatrixCache' = <<>>
    /\ pMatrixCacheValid' = FALSE
    /\ call' = Call("clear", 0, 0, "none", <<>>, FALSE)
    /\ UNCHANGED <<openmp, scene, cachedRangeStart, cachedRangeEnd>>

\* the host scene is edited (or the edit undone): later evaluations give the
\* matrices of the other scene version
SceneChange ==
    /\ scene' = 1 - scene
    /\ UNCHANGED <<openmp, pMatrixCache, cachedRangeStart, cachedRangeEnd,
                   pMatrixCacheValid, call>>

\* the caller turns to the other MotionPath object: the cache variables stand
\* for the members of the track that the next call is made on
SwitchTrack ==
    /\ otherTrack' = [id |-> 1 - otherTrack.id,
                      pMatrixCache |-> pMatrixCache,
                      cachedRangeStart |-> cachedRangeStart,
                      cachedRangeEnd |-> cachedRangeEnd,
                      pMatrixCacheValid |-> pMatrixCacheValid,
                      call |-> call]
    /\ pMatrixCache' = otherTrack.pMatrixCache
    /\ cachedRangeStart' = otherTrack.cachedRangeStart
    /\ cachedRangeEnd' = otherTrack.cachedRangeEnd
    /\ pMatrixCacheValid' = otherTrack.pMatrixCacheValid
    /\ call' = otherTrack.call
    /\ UNCHANGED <<openmp, scene>>

----------------------------------------------------------------------------
\* The three-phase rebuild of cacheParentMatrixRange, step by step

\* the threads of the team; the thread that called cacheParentMatrixRange is
\* the first of them
Threads == 0 .. (NumThreads - 1)
Owner == 0

\* #pragma omp parallel for schedule(static): the iterations 0..n-1 are cut
\* into one run of consecutive indices for each thread
ChunkSize(n) == (n + NumThreads - 1) \div NumThreads
ChunkStart(t, n) == Min(n, t * ChunkSize(n))
ChunkEnd(t, n) == Min(n, (t + 1) * ChunkSize(n))

\* a default-constructed MMatrix
Identity == [time |-> -1, scene |-> -1]

\* no rebuild under way and none made
NoRebuild ==
    [phase |-> "idle", startFrame |-> 0, endFrame |-> 0, numFrames |-> 0,
     idx |-> 0, parentMatrices |-> <<>>, finalMatrices |-> <<>>, next |-> <<>>,
     before |-> <<>>, apiCalls |-> {}, slotWriters |-> <<>>]

\* the parallel loop is left without waiting for the team
WorkersDone_NoBarrier(r) == TRUE
\* the barrier that ends the parallel loop: every thread has run its chunk
WorkersDone(r) == \A t \in Threads : r.next[t] = ChunkEnd(t, r.numFrames)

\* cacheParentMatrixRange(startFrame, endFrame) reaches the three-phase
\* branch: the cache is invalid or empty and there are more than 50 frames.
\* The vectors are constructed with numFrames default elements.
BeginRebuild ==
    /\ threePhase.phase = "idle"
    /\ openmp
    /\ ~ (pMatrixCacheValid /\ DOMAIN pMatrixCache # {})
    /\ \E startFrame \in StartFrames, endFrame \in EndFrames :
          LET numFrames == endFrame - startFrame + 1
          IN /\ numFrames > PARALLEL_MIN_FRAMES
             /\ threePhase' =
                   [phase |-> "gather", startFrame |-> startFrame,
                    endFrame |-> endFrame, numFrames |-> numFrames, idx |-> 0,
                    parentMatrices |-> [i \in 0 .. (numFrames - 1) |-> Identity],
                    finalMatrices |-> [i \in 0 .. (numFrames - 1) |-> Identity],
                    next |-> [t \in Threads |-> ChunkStart(t, numFrames)],
                    before |-> pMatrixCache, apiCalls |-> {},
                    slotWriters |-> [i \in 0 .. (numFrames - 1) |-> {}]]
    /\ UNCHANGED cacheVars

\* phase 1, one turn of the loop on the owning thread:
\* parentMatrices[idx] = getMatrixFromPlug(pMatrixPlug, evalTime)
Gather ==
    /\ threePhase.phase = "gather"
    /\ threePhase.idx < threePhase.numFrames
    /\ threePhase' =
          [threePhase EXCEPT
              !.parentMatrices[threePhase.idx] =
                  getPMatrixAtTime(Tick(threePhase.startFrame + threePhase.idx)),
              !.apiCalls = @ \cup {[idx |-> threePhase.idx, thread |-> Owner,
                                    phase |-> threePhase.phase]},
              !.idx = @ + 1]
    /\ UNCHANGED cacheVars

\* the loop of phase 1 is done and the team enters the parallel loop
Fork ==
    /\ threePhase.phase = "gather"
    /\ threePhase.idx = threePhase.numFrames
    /\ threePhase' = [threePhase EXCEPT !.phase = "compose"]
    /\ UNCHANGED cacheVars

\* phase 2, one iteration of the thread t: finalMatrices[idx] = m, composed
\* from parentMatrices[idx] and the pivots gathered for idx
Compose(t) ==
    /\ threePhase.phase = "compose"
    /\ threePhase.next[t] < ChunkEnd(t, threePhase.numFrames)
    /\ LET idx == threePhase.next[t]
       IN threePhase' = [threePhase EXCEPT
                         !.finalMatrices[idx] = threePhase.parentMatrices[idx],
                         !.slotWriters[idx] = @ \cup {t},
                         !.next[t] = @ + 1]
    /\ UNCHANGED cacheVars

\* the end of the parallel loop
Join ==
    /\ threePhase.phase = "compose"
    /\ WorkersDone(threePhase)
    /\ threePhase' = [threePhase EXCEPT !.phase = "writeback", !.idx = 0]
    /\ UNCHANGED cacheVars

\* phase 3, one turn of the loop on the owning thread:
\* pMatrixCache[frames[idx]] = finalMatrices[idx]
Writeback ==
    /\ threePhase.phase = "writeback"
    /\ threePhase.idx < threePhase.numFrames
    /\ LET t == Tick(threePhase.startFrame + threePhase.idx)
       IN pMatrixCache' =
              [u \in (DOMAIN pMatrixCache) \cup {t} |->
                  IF u = t THEN threePhase.finalMatrices[threePhase.idx]
                  ELSE pMatrixCache[u]]
    /\ threePhase' = [threePhase EXCEPT !.idx = @ + 1]
    /\ UNCHANGED <<openmp, scene, cachedRangeStart, cachedRangeEnd,
                   pMatrixCacheValid, call>>

\* the range bookkeeping that ends the full rebuild
EndRebuild ==
    /\ threePhase.phase = "writeback"
    /\ threePhase.idx = threePhase.numFrames
    /\ cachedRangeStart' = threePhase.startFrame
    /\ cachedRangeEnd' = threePhase.endFrame
    /\ pMatrixCacheValid' = TRUE
    /\ call' = Call("cacheRange", threePhase.startFrame, threePhase.endFrame,
                    "threePhase",
                    [k \in 1 .. threePhase.numFrames |->
                        Tick(threePhase.startFrame + k - 1)], TRUE)
    /\ threePhase' = [threePhase EXCEPT !.phase = "idle"]
    /\ UNCHANGED <<openmp, scene, pMatrixCache>>

----------------------------------------------------------------------------
\* Exact fractions

RECURSIVE GCD(_, _)
GCD(a, b) == IF b = 0 THEN a ELSE GCD(b, a % b)
\* the fraction n/d in lowest terms
Ratio(n, d) == [n |-> n \div GCD(n, d), d |-> d \div GCD(n, d)]
RatioLeq(r, s) == r.n * s.d <= s.n * r.d
RatioTimes(r, s) == Ratio(r.n * s.n, r.d * s.d)
RatioMinus(r) == [n |-> 0 - r.n, d |-> r.d]

----------------------------------------------------------------------------
\* Keyframe cache

TranslateCurves == {"TX", "TY", "TZ"}
RotateCurves == {"RX", "RY", "RZ"}
CurveNames == TranslateCurves \cup RotateCurves
\* the translation curve of an axis
TranslateCurveOf(axisName) ==
    CASE axisName = "x" -> "TX" [] axisName = "y" -> "TY" [] axisName = "z" -> "TZ"
KeyTimes == 0 .. (MaxTime + 1)
KeySlots == CurveNames \X KeyTimes

\* the ways to put at most n keys on the six curves
RECURSIVE KeyPlacements(_)
KeyPlacements(n) ==
    IF n = 0 THEN {{}}
    ELSE LET fewer == KeyPlacements(n - 1)
         IN fewer \cup {placed \cup {slot} : placed \in fewer, slot \in KeySlots}

CurvesOf(placed) == [c \in CurveNames |-> {t \in KeyTimes : <<c, t>> \in placed}]

\* MFnAnimCurve: a curve is the set of its key times, indexed in time order
numKeys(curve) == Cardinality(curve)
KeyIndex(curve, t) == Cardinality({u \in curve : u < t})
\* curve.time(index); noKeyTime is what the host gives when there is no key
\* at that index
curveTime(curve, index, noKeyTime) ==
    IF index >= 0 /\ index < numKeys(curve)
    THEN CHOOSE t \in curve : KeyIndex(curve, t) = index
    ELSE noKeyTime

\* MVector::MVector
ZeroVector == [x |-> Ratio(0, 1), y |-> Ratio(0, 1), z |-> Ratio(0, 1)]

\* Keyframe::Keyframe
NewKeyframe ==
    [id |-> -1, time |-> 0, tangentsLocked |-> TRUE,
     inTangent |-> ZeroVector, outTangent |-> ZeroVector,
     xKeyId |-> -1, yKeyId |-> -1, zKeyId |-> -1,
     xRotKeyId |-> -1, yRotKeyId |-> -1, zRotKeyId |-> -1,
     showInTangent |-> TRUE, showOutTangent |-> TRUE,
     selectedFromTool |-> FALSE]

setKeyId(key, id, axisName) ==
    CASE axisName = "x" -> [key EXCEPT !.xKeyId = id]
      [] axisName = "y" -> [key EXCEPT !.yKeyId = id]
      [] axisName = "z" -> [key EXCEPT !.zKeyId = id]

setRotKeyId(key, id, axisName) ==
    CASE axisName = "x" -> [key EXCEPT !.xRotKeyId = id]
      [] axisName = "y" -> [key EXCEPT !.yRotKeyId = id]
      [] axisName = "z" -> [key EXCEPT !.zRotKeyId = id]

\* Keyframe::setTangentValue
setTangentValue(key, value, axisName, isIn) ==
    IF isIn THEN [key EXCEPT !.inTangent[axisName] = value]
    ELSE [key EXCEPT !.outTangent[axisName] = value]

\* the tangents the keys of the model's curves have: the in-tangent at 45
\* degrees, the out-tangent at slope 2, the weight 1, 2 or 3 by the axis
curveTangent(axisName, isIn) ==
    [angle |-> Ratio(IF isIn THEN 1 ELSE 2, 1),
     weight |-> Ratio(CASE axisName = "x" -> 1 [] axisName = "y" -> 2
                        [] axisName = "z" -> 3, 1)]

\* curve.getTangent(uKey, angle, w1, isIn) succeeds
TangentRead(axisName, t, isIn) ==
    <<TranslateCurveOf(axisName), t, isIn>> \notin hostTangents.fails

\* Keyframe::setTangent on a non-weighted curve:
\* tangentVal = std::tan(angle.asRadians()) * w1
TangentValueOf(angle, w1) == RatioTimes(angle, w1)

\* Keyframe::setTangent with the status of the read not looked at: the value
\* is computed from whatever the host left in angle and w1
setTangent_IgnoresStatus(key, t, axisName, isIn) ==
    LET tangent == curveTangent(axisName, isIn)
    IN setTangentValue(key, TangentValueOf(tangent.angle, tangent.weight),
                       axisName, isIn)

\* Keyframe::setTangent for the key of a non-weighted curve at the time t
setTangent(key, t, axisName, isIn) ==
    LET tangent == curveTangent(axisName, isIn)
        tangentVal == IF ~ TangentRead(axisName, t, isIn) THEN Ratio(0, 1)
                      ELSE TangentValueOf(tangent.angle, tangent.weight)
    IN setTangentValue(key, tangentVal, axisName, isIn)

\* the translate branch of expandKeyFramesCache for the key at the time t
TranslateKey(keyframePtr, curve, t, axisName) ==
    LET timed == [keyframePtr EXCEPT !.time = t]
        tin == setTangent(timed, t, axisName, TRUE)
        tout == setTangent(tin, t, axisName, FALSE)
        ided == setKeyId(tout, KeyIndex(curve, t), axisName)
        areTangentsLocked ==
            <<TranslateCurveOf(axisName), t>> \notin hostTangents.unlocked
    IN IF ided.tangentsLocked
       THEN [ided EXCEPT !.tangentsLocked = areTangentsLocked]
       ELSE ided

\* expandKeyFramesCache as it was before rotation keys could create records:
\* a rotation key is merged only into a record a translation key has made
expandKeyFramesCache_RotationNeedsRecord(cache, curve, axisName, isTranslate) ==
    LET endTime == IF isDrawing THEN endDrawingTime ELSE displayEndTime
        inWindow == {t \in curve : t >= displayStartTime /\ t <= endTime
                                   /\ (isTranslate \/ t \in DOMAIN cache)}
        keyframe(t) ==
            LET keyframePtr == IF t \in DOMAIN cache THEN cache[t] ELSE NewKeyframe
                timed == [keyframePtr EXCEPT !.time = t]
            IN IF isTranslate THEN TranslateKey(keyframePtr, curve, t, axisName)
               ELSE setRotKeyId(timed, KeyIndex(curve, t), axisName)
    IN [t \in (DOMAIN cache) \cup inWindow |->
           IF t \in inWindow THEN keyframe(t) ELSE cache[t]]

\* expandKeyFramesCache: the keys come in time order, so leaving the loop at
\* the first key past endTime visits the keys inside [displayStartTime, endTime]
expandKeyFramesCache(cache, curve, axisName, isTranslate) ==
    LET endTime == IF isDrawing THEN endDrawingTime ELSE displayEndTime
        inWindow == {t \in curve : t >= displayStartTime /\ t <= endTime}
        keyframe(t) ==
            LET keyframePtr == IF t \in DOMAIN cache THEN cache[t] ELSE NewKeyframe
                timed == [keyframePtr EXCEPT !.time = t]
            IN IF isTranslate THEN TranslateKey(keyframePtr, curve, t, axisName)
               ELSE setRotKeyId(timed, KeyIndex(curve, t), axisName)
    IN [t \in (DOMAIN cache) \cup inWindow |->
           IF t \in inWindow THEN keyframe(t) ELSE cache[t]]

showTangent(time, firstId, firstTime, secondId, secondTime) ==
    ~ ((firstId = -1 /\ secondId = -1) \/ (time = firstTime /\ time = secondTime))

\* keyFramePtr = &keyframesCache[t]: operator[] makes the record when there is none
RecordAt(cache, t) ==
    IF t \in DOMAIN cache THEN cache ELSE cache @@ (t :> NewKeyframe)

\* one of the six blocks of setShowInOutTangents
ShowTangentStep(cache, t, isIn, idA, timeA, idB, timeB) ==
    IF t >= displayStartTime /\ t <= displayEndTime
    THEN LET made == RecordAt(cache, t)
             shown == showTangent(t, made[t][idA], timeA, made[t][idB], timeB)
         IN IF isIn THEN [made EXCEPT ![t].showInTangent = shown]
            ELSE [made EXCEPT ![t].showOutTangent = shown]
    ELSE cache

setShowInOutTangents(cache, curveTX, curveTY, curveTZ, noKeyTime) ==
    IF numKeys(curveTX) = 0 /\ numKeys(curveTY) = 0 /\ numKeys(curveTZ) = 0
    THEN cache
    ELSE LET minTimeX == curveTime(curveTX, 0, noKeyTime)
             maxTimeX == curveTime(curveTX, numKeys(curveTX) - 1, noKeyTime)
             minTimeY == curveTime(curveTY, 0, noKeyTime)
             maxTimeY == curveTime(curveTY, numKeys(curveTY) - 1, noKeyTime)
             minTimeZ == curveTime(curveTZ, 0, noKeyTime)
             maxTimeZ == curveTime(curveTZ, numKeys(curveTZ) - 1, noKeyTime)
             c1 == ShowTangentStep(cache, minTimeX, TRUE, "yKeyId", minTimeY, "zKeyId", minTimeZ)
             c2 == ShowTangentStep(c1, minTimeY, TRUE, "xKeyId", minTimeX, "zKeyId", minTimeZ)
             c3 == ShowTangentStep(c2, minTimeZ, TRUE, "xKeyId", minTimeX, "yKeyId", minTimeY)
             c4 == ShowTangentStep(c3, maxTimeX, FALSE, "yKeyId", maxTimeY, "zKeyId", maxTimeZ)
             c5 == ShowTangentStep(c4, maxTimeY, FALSE, "xKeyId", maxTimeX, "zKeyId", maxTimeZ)
         IN ShowTangentStep(c5, maxTimeZ, FALSE, "xKeyId", maxTimeX, "yKeyId", maxTimeY)

\* the curves cacheKeyFrames expands, in its order: the three translate
\* curves, then with showRotationKeyFrames the three rotate curves
ExpandedCurves(rotation) ==
    <<[curve |-> "TX", axisName |-> "x", isTranslate |-> TRUE],
      [curve |-> "TY", axisName |-> "y", isTranslate |-> TRUE],
      [curve |-> "TZ", axisName |-> "z", isTranslate |-> TRUE]>>
    \o (IF rotation
        THEN <<[curve |-> "RX", axisName |-> "x", isTranslate |-> FALSE],
               [curve |-> "RY", axisName |-> "y", isTranslate |-> FALSE],
               [curve |-> "RZ", axisName |-> "z", isTranslate |-> FALSE]>>
        ELSE <<>>)

\* the calls of expandKeyFramesCache, one after the other on the same map
RECURSIVE ExpandCurves(_, _)
ExpandCurves(cache, order) ==
    IF order = <<>> THEN cache
    ELSE ExpandCurves(expandKeyFramesCache(cache, curves[Head(order).curve],
                                           Head(order).axisName,
                                           Head(order).isTranslate),
                      Tail(order))

\* cacheKeyFrames, the loop over the records of the map: the id, the selection
\* mark and the handles hidden while drawing
NumberedKeys(shown, cameraSpace, cachePtr) ==
    LET \* if (!cachePtr) continue; leaves the loop body before i += 1
        counting == ~ (cameraSpace /\ ~ cachePtr)
        i(t) == IF counting THEN Cardinality({u \in DOMAIN shown : u < t}) ELSE 0
        key(t) ==
            [shown[t] EXCEPT
                !.id = i(t),
                !.selectedFromTool = IF shown[t].time \in selectedKeyTimes THEN TRUE ELSE @,
                !.showInTangent = IF isDrawing THEN FALSE ELSE @,
                !.showOutTangent = IF isDrawing THEN FALSE ELSE @]
    IN [t \in DOMAIN shown |-> key(t)]

\* cacheKeyFrames: the records it leaves in the map.  Every curve of the
\* model is a time-based curve (isCurveTypeAnimatable holds).
cacheKeyFrames(cache, noKeyTime, cameraSpace, cachePtr) ==
    NumberedKeys(setShowInOutTangents(
                     ExpandCurves(cache, ExpandedCurves(showRotationKeyFrames)),
                     curves["TX"], curves["TY"], curves["TZ"], noKeyTime),
                 cameraSpace, cachePtr)

\* the records of the map in iteration order
MapOrder(cache) ==
    [n \in 1 .. Cardinality(DOMAIN cache) |->
        CHOOSE t \in DOMAIN cache : Cardinality({u \in DOMAIN cache : u < t}) = n - 1]

\* the times cacheKeyFrames passes to ensureParentAndPivotMatrixAtTime for one
\* record: its time, and time -/+ TANGENT_TIME_DELTA for a shown handle of a
\* non-weighted curve
KeyframeMatrixTimes(key, isWeighted, cameraSpace, cachePtr) ==
    LET sampled == ~ isWeighted /\ ~ (cameraSpace /\ ~ cachePtr)
    IN <<Tick(key.time)>>
       \o (IF sampled /\ key.showInTangent THEN <<Tick(key.time) - 1>> ELSE <<>>)
       \o (IF sampled /\ key.showOutTangent THEN <<Tick(key.time) + 1>> ELSE <<>>)

RECURSIVE EnsureKeyframeMatrices(_, _, _, _, _, _)
EnsureKeyframeMatrices(st, cache, order, isWeighted, cameraSpace, cachePtr) ==
    IF order = <<>> THEN st
    ELSE LET times == KeyframeMatrixTimes(cache[Head(order)], isWeighted,
                                          cameraSpace, cachePtr)
             s1 == ensureParentAndPivotMatrixAtTime(st, times[1])
             s2 == IF Len(times) >= 2
                   THEN ensureParentAndPivotMatrixAtTime(s1, times[2]) ELSE s1
             s3 == IF Len(times) >= 3
                   THEN ensureParentAndPivotMatrixAtTime(s2, times[3]) ELSE s2
         IN EnsureKeyframeMatrices(s3, cache, Tail(order), isWeighted,
                                   cameraSpace, cachePtr)

\* the curves of the model are non-weighted (the host's default)
isWeighted == FALSE

\* what the host may give as the time of a key that does not exist: a time
\* outside the display window or one inside it
NoKeyTimes == {0, MaxTime}

\* some translation curve has keys and some has none: setShowInOutTangents
\* asks a curve without keys for the time of its first and last key
AsksKeylessCurve ==
    /\ \E c \in TranslateCurves : numKeys(curves[c]) # 0
    /\ \E c \in TranslateCurves : numKeys(curves[c]) = 0

\* MotionPath::draw, locked mode off and no unkeyed edit pending: the range is
\* cached, and unless the camera cache is missing or the track is constrained
\* the keyframe cache is cleared and rebuilt
draw ==
    \E cachePtr \in (IF motionPathDrawMode = "camera" THEN BOOLEAN ELSE {TRUE}),
       constrained \in BOOLEAN,
       noKeyTime \in (IF AsksKeylessCurve THEN NoKeyTimes ELSE {0}) :
        LET cameraSpace == motionPathDrawMode = "camera"
            r == cacheParentMatrixRange(displayStartTime, displayEndTime)
            returned == cameraSpace /\ ~ cachePtr
            rebuild == ~ returned /\ ~ constrained
        IN \E records \in {IF rebuild
                           THEN cacheKeyFrames(<<>>, noKeyTime, cameraSpace, cachePtr)
                           ELSE keyframesCache} :
           /\ pMatrixCache' =
                  IF rebuild
                  THEN EnsureKeyframeMatrices(r.st, records, MapOrder(records),
                                              isWeighted, cameraSpace, cachePtr).cache
                  ELSE r.st.cache
           /\ cachedRangeStart' = r.rangeStart
           /\ cachedRangeEnd' = r.rangeEnd
           /\ pMatrixCacheValid' = r.valid
           /\ keyframesCache' = records
           /\ drawn' = IF rebuild THEN "rebuilt" ELSE drawn
           /\ UNCHANGED <<openmp, scene, call, curves, showRotationKeyFrames,
                          displayStartTime, displayEndTime, isDrawing,
                          endDrawingTime, selectedKeyTimes, currentMode>>
           /\ UNCHANGED <<strokeVars, toolVars>>

----------------------------------------------------------------------------
\* Selection and clipboard commands

\* MotionPath::selectAllKeys
selectAllKeys ==
    /\ keyframesCache' = [k \in DOMAIN keyframesCache |->
                             [keyframesCache[k] EXCEPT !.selectedFromTool = TRUE]]
    /\ selectedKeyTimes' =
          selectedKeyTimes \cup {keyframesCache[k].time : k \in DOMAIN keyframesCache}
    /\ UNCHANGED <<cacheVars, curves, showRotationKeyFrames, displayStartTime,
                   displayEndTime, isDrawing, endDrawingTime, currentMode, drawn>>
    /\ UNCHANGED <<strokeVars, toolVars, copied, classified, editTool, sessionVars>>

\* MotionPath::invertKeysSelection
invertKeysSelection ==
    /\ keyframesCache' = [k \in DOMAIN keyframesCache |->
                             [keyframesCache[k] EXCEPT !.selectedFromTool = ~ @]]
    /\ selectedKeyTimes' =
          {keyframesCache[k].time :
              k \in {j \in DOMAIN keyframesCache : ~ keyframesCache[j].selectedFromTool}}
    /\ UNCHANGED <<cacheVars, curves, showRotationKeyFrames, displayStartTime,
                   displayEndTime, isDrawing, endDrawingTime, currentMode, drawn>>
    /\ UNCHANGED <<strokeVars, toolVars, copied, classified, editTool, sessionVars>>

\* isCurveBoundaryKey looking at the first key only
isCurveBoundaryKey_FirstOnly(curve, time) ==
    IF time \notin curve THEN FALSE
    ELSE LET keyID == KeyIndex(curve, time)
         IN keyID = 0

\* isCurveBoundaryKey: curve.find(time, keyID) fails when no key is at time
isCurveBoundaryKey(curve, time) ==
    IF time \notin curve THEN FALSE
    ELSE LET keyID == KeyIndex(curve, time)
         IN keyID = 0 \/ keyID = numKeys(curve) - 1

\* a call of isCurveBoundaryKey for a curve of the track and a time
ClassifyKey ==
    /\ \E c \in CurveNames, time \in KeyTimes :
          classified' = [asked |-> TRUE, keys |-> curves[c], time |-> time,
                         boundary |-> isCurveBoundaryKey(curves[c], time)]
    /\ UNCHANGED <<cacheVars, keyVars, strokeVars, toolVars, copied, editTool, sessionVars>>

\* std::sort(times.begin(), times.end()) of the times of a std::set
SortedTimes(set) ==
    [n \in 1 .. Cardinality(set) |->
        CHOOSE t \in set : Cardinality({u \in set : u < t}) = n - 1]

\* setExtraKeyFramesForStoringTangentsForClipboard on a curve that has a key
\* at currentTime exactly when hasKey says so.  ck is the curve with the
\* MIntArray keysToDelete; addKey at a time that has a key adds nothing.
setExtraKeyFramesForStoringTangentsForClipboard(ck, hasKey, initialKey, currentTime) ==
    LET c1 == IF ~ hasKey THEN ck.curve \cup {currentTime} ELSE ck.curve
        keyID == KeyIndex(c1, currentTime)
        hasOther == \/ keyID = numKeys(c1) - 1 /\ initialKey
                    \/ keyID = 0 /\ ~ initialKey
        otherTime == IF keyID = numKeys(c1) - 1 /\ initialKey
                     THEN currentTime + 1 ELSE currentTime - 1
        c2 == IF hasOther THEN c1 \cup {otherTime} ELSE c1
        k1 == IF hasOther THEN Append(ck.keysToDelete, KeyIndex(c2, otherTime))
              ELSE ck.keysToDelete
        k2 == IF ~ hasKey THEN Append(k1, KeyIndex(c2, currentTime)) ELSE k1
    IN [curve |-> c2, keysToDelete |-> k2]

\* the first loop of storeSelectedKeysInClipboard, for one axis, from the
\* i-th selected time on (i counts from 1)
RECURSIVE StoreLoop(_, _, _, _)
StoreLoop(ck, axisId, times, i) ==
    IF i > Len(times) THEN ck
    ELSE LET boundaryKey == i = 1 \/ i = Len(times)
             found == times[i] \in DOMAIN keyframesCache
             next == IF found /\ boundaryKey
                     THEN setExtraKeyFramesForStoringTangentsForClipboard(
                              ck, keyframesCache[times[i]][axisId] # -1, i = 1,
                              times[i])
                     ELSE ck
         IN StoreLoop(next, axisId, times, i + 1)

\* curve.remove(index): fails when the curve has no key of that index
curveRemove(curve, index) ==
    IF index >= 0 /\ index < numKeys(curve)
    THEN curve \ {curveTime(curve, index, 0)}
    ELSE curve

\* cleanExtraKeysForClipboard
cleanExtraKeysForClipboard(curve, keys) ==
    LET size == Len(keys)
    IN IF size > 0 /\ size < 3
       THEN IF size = 1 THEN curveRemove(curve, keys[1])
            ELSE IF keys[2] > keys[1]
                 THEN curveRemove(curveRemove(curve, keys[2]), keys[1])
                 ELSE curveRemove(curveRemove(curve, keys[1]), keys[2])
       ELSE curve

\* pMatrixCache[time]: operator[] of the map makes a default matrix when
\* there is no entry
LookedUp(cache, time) ==
    IF time \in DOMAIN cache THEN cache ELSE cache @@ (time :> Identity)

RECURSIVE LookedUpAll(_, _)
LookedUpAll(cache, times) ==
    IF times = <<>> THEN cache
    ELSE LookedUpAll(LookedUp(cache, Head(times)), Tail(times))

\* ensureParentAndPivotMatrixAtTime(time) for each of the times in turn
\* (addKeyFrameAtTime with a position, pasteKeys)
RECURSIVE EnsureAll(_, _)
EnsureAll(st, times) ==
    IF times = <<>> THEN st
    ELSE EnsureAll(ensureParentAndPivotMatrixAtTime(st, Tick(Head(times))),
                   Tail(times))

\* deleteKeyFramesBetweenTimes deleting the keys of [startTime, endTime]
deleteKeyFramesBetweenTimes_Closed(keys, startTime, endTime) ==
    {t \in keys : ~ (t >= startTime /\ t <= endTime)}

\* MotionPath::deleteKeyFramesBetweenTimes: the keys of one curve that are left
deleteKeyFramesBetweenTimes(keys, startTime, endTime) ==
    {t \in keys : ~ (t > startTime /\ t <= endTime)}

\* MotionPath::deleteAllKeyFramesInRange: the three translation curves and the
\* three rotation curves
deleteAllKeyFramesInRange(cv, startTime, endTime) ==
    [c \in CurveNames |-> deleteKeyFramesBetweenTimes(cv[c], startTime, endTime)]

\* no paste has been made from the clipboard
NoPaste == [made |-> FALSE, time |-> 0, offset |-> FALSE, cached |-> FALSE]

\* the KeyCopy entries the first loop of storeSelectedKeysInClipboard adds to
\* the clipboard: one for every selected time that has a record
ClipboardKeys(times) ==
    LET tsize == Len(times)
        KeyCopyOf(i) ==
            LET key == keyframesCache[times[i]]
                boundaryKey == i = 1 \/ i = tsize
            IN [deltaTime |-> times[i] - times[1],
                hasKeyX |-> key.xKeyId # -1 \/ boundaryKey,
                hasKeyY |-> key.yKeyId # -1 \/ boundaryKey,
                hasKeyZ |-> key.zKeyId # -1 \/ boundaryKey]
        found == SelectSeq([i \in 1 .. tsize |-> i],
                           LAMBDA i : times[i] \in DOMAIN keyframesCache)
    IN [n \in 1 .. Len(found) |-> KeyCopyOf(found[n])]

\* MotionPath::storeSelectedKeysInClipboard, the three translation curves
\* existing and the track drawn since its curves last changed (the key ids of
\* the records are those of the curves)
storeSelectedKeysInClipboard ==
    /\ drawn = "rebuilt"
    /\ \A c \in TranslateCurves : curves[c] # {}
    /\ LET times == SortedTimes(selectedKeyTimes)
           start(c) == [curve |-> curves[c], keysToDelete |-> <<>>]
           x == StoreLoop(start("TX"), "xKeyId", times, 1)
           y == StoreLoop(start("TY"), "yKeyId", times, 1)
           z == StoreLoop(start("TZ"), "zKeyId", times, 1)
           stored == SelectSeq(times, LAMBDA t : t \in DOMAIN keyframesCache)
           matrixTimes == [n \in 1 .. Len(stored) |->
                              Tick(keyframesCache[stored[n]].time)]
       IN /\ curves' = [curves EXCEPT
                           !["TX"] = cleanExtraKeysForClipboard(x.curve, x.keysToDelete),
                           !["TY"] = cleanExtraKeysForClipboard(y.curve, y.keysToDelete),
                           !["TZ"] = cleanExtraKeysForClipboard(z.curve, z.keysToDelete)]
          /\ pMatrixCache' = LookedUpAll(pMatrixCache, matrixTimes)
          /\ copied' = [made |-> TRUE, before |-> curves, times |-> times,
                        xKeys |-> x.keysToDelete, yKeys |-> y.keysToDelete,
                        zKeys |-> z.keysToDelete,
                        keys |-> ClipboardKeys(times), paste |-> NoPaste]
          /\ drawn' = IF curves' = curves THEN drawn ELSE "stale"
    /\ UNCHANGED <<openmp, scene, cachedRangeStart, cachedRangeEnd,
                   pMatrixCacheValid, call>>
    /\ UNCHANGED <<showRotationKeyFrames, displayStartTime, displayEndTime,
                   isDrawing, endDrawingTime, selectedKeyTimes, keyframesCache,
                   currentMode>>
    /\ UNCHANGED <<strokeVars, toolVars, classified, editTool, sessionVars>>

\* the times pasteKeys is called with: the current frame, or the time of a key
PasteTimes == 0 .. (MaxTime + 1)

\* KeyCopy::addKeyFrame for the i-th of size entries at the time t: a key on
\* every curve the entry has one for, on all three for the first and the last
PasteKey(cv, kc, t, boundaryKey) ==
    [c \in CurveNames |->
        IF \/ c = "TX" /\ (kc.hasKeyX \/ boundaryKey)
           \/ c = "TY" /\ (kc.hasKeyY \/ boundaryKey)
           \/ c = "TZ" /\ (kc.hasKeyZ \/ boundaryKey)
        THEN cv[c] \cup {t} ELSE cv[c]]

RECURSIVE PasteLoop(_, _, _, _)
PasteLoop(cv, keys, time, i) ==
    IF i > Len(keys) THEN cv
    ELSE PasteLoop(PasteKey(cv, keys[i], time + keys[i].deltaTime,
                            i = 1 \/ i = Len(keys)),
                   keys, time, i + 1)

\* MotionPath::pasteKeys(time, offset), the clipboard holding keys (the menu
\* offers the paste only then) and the three translation curves existing.
\* With offset the parent matrix of time is looked up with pMatrixCache[time]
\* before anything is ensured; the keys of (time, time + last deltaTime] are
\* deleted; for every entry the matrix of its time is ensured and its key added.
pasteKeys ==
    /\ Len(copied.keys) > 0
    /\ \E time \in PasteTimes, offset \in BOOLEAN :
          LET keys == copied.keys
              size == Len(keys)
              lookedUp == IF offset THEN LookedUp(pMatrixCache, Tick(time))
                          ELSE pMatrixCache
              deleted == [c \in CurveNames |->
                             IF c \in TranslateCurves
                             THEN deleteKeyFramesBetweenTimes(
                                      curves[c], time, time + keys[size].deltaTime)
                             ELSE curves[c]]
              pasteTimes == [i \in 1 .. size |-> time + keys[i].deltaTime]
          IN /\ curves' = PasteLoop(deleted, keys, time, 1)
             /\ pMatrixCache' = EnsureAll(CacheSt(lookedUp, <<>>), pasteTimes).cache
             /\ copied' = [copied EXCEPT
                              !.paste = [made |-> TRUE, time |-> time,
                                         offset |-> offset,
                                         cached |-> Tick(time) \in DOMAIN pMatrixCache]]
             /\ drawn' = IF curves' = curves THEN drawn ELSE "stale"
    /\ UNCHANGED <<openmp, scene, cachedRangeStart, cachedRangeEnd,
                   pMatrixCacheValid, call>>
    /\ UNCHANGED <<showRotationKeyFrames, displayStartTime, displayEndTime,
                   isDrawing, endDrawingTime, selectedKeyTimes, keyframesCache,
                   currentMode>>
    /\ UNCHANGED <<strokeVars, toolVars, classified, editTool, sessionVars>>

----------------------------------------------------------------------------
\* The stroke fitter.  Screen positions are whole pixels; a fitted position is
\* the exact rational point (x/d, y/d), so that no rounding hides a difference.

Vec(x, y) == [x |-> x, y |-> y]
Sub(u, v) == Vec(u.x - v.x, u.y - v.y)
Dot(u, v) == u.x * v.x + u.y * v.y
Abs(n) == IF n < 0 THEN 0 - n ELSE n

RPoint(x, y, d) == [x |-> x, y |-> y, d |-> d]
Exact(p) == RPoint(p.x, p.y, 1)
\* b * t + a * (1 - t) for t = tn/td
Interp(a, b, tn, td) ==
    RPoint(b.x * tn + a.x * (td - tn), b.y * tn + a.y * (td - tn), td)
SamePoint(r, s) == r.x * s.d = s.x * r.d /\ r.y * s.d = s.y * r.d

\* the positions the pointer reports: three on a horizontal line, one above it
\* (whole distances 9, 12, 15, 18 between them), and one closer to the press
\* position than the sampling threshold
ScreenPoints ==
    {Vec(0, 0), Vec(9, 0), Vec(18, 0), Vec(9, 12), Vec(4, 3)}
\* initialX, initialY of the press
PressPoint == Vec(0, 0)
\* where the view projects the j-th key after the grabbed one
KeyScreen(j) == Vec(((7 * j) % 20) - 4, ((5 * j) % 13) - 3)

\* doDrag: double threshold = 8.0
SAMPLE_THRESHOLD == 8

\* getClosestPointOnPolyLine, one turn of the loop over the segment a -> b
\* (a = strokePoints[i-1], b = strokePoints[i]); s holds dist, finalT = tn/td and
\* index.  skipDegenerate is the edit tool's test of sqrlen; clamp is the
\* "t > 1 ? 1 : t" of finalT.  t = tnum/sqrlen is compared without dividing: no
\* segment has length 0, doDrag samples only beyond the threshold.
ClosestStep(s, i, a, b, q, skipDegenerate, clamp) ==
    LET dab == Sub(a, b)
        daq == Sub(a, q)
        dbq == Sub(b, q)
        sqrlen == Dot(dab, dab)
        tnum == Dot(dab, daq)
        cross == dab.x * dbq.y - dab.y * dbq.x
        current_dist == IF tnum <= sqrlen
                        THEN [n |-> cross * cross, d |-> sqrlen]
                        ELSE [n |-> Dot(dbq, dbq), d |-> 1]
        past == tnum > sqrlen /\ clamp
    IN IF skipDegenerate /\ sqrlen = 0 THEN s
       ELSE IF tnum < 0 THEN s
       ELSE IF current_dist.n * s.dist.d < s.dist.n * current_dist.d
            THEN [dist |-> current_dist,
                  tn |-> IF past THEN 1 ELSE tnum,
                  td |-> IF past THEN 1 ELSE sqrlen,
                  index |-> i]
            ELSE s

RECURSIVE ClosestLoop(_, _, _, _, _, _)
ClosestLoop(s, i, q, points, skipDegenerate, clamp) ==
    IF i >= Len(points) THEN s
    ELSE ClosestLoop(ClosestStep(s, i, points[i], points[i + 1], q,
                                 skipDegenerate, clamp),
                     i + 1, q, points, skipDegenerate, clamp)

\* the whole function: the returned point, with the index and finalT it was
\* interpolated from
ClosestResult(q, points, skipDegenerate, clamp) ==
    LET dbq == Sub(points[1], q)
        s == ClosestLoop([dist |-> [n |-> Dot(dbq, dbq), d |-> 1],
                          tn |-> 0, td |-> 1, index |-> 0],
                         1, q, points, skipDegenerate, clamp)
    IN [point |-> IF s.tn = 0 /\ s.index = 0
                  THEN Exact(points[1])
                  ELSE Interp(points[s.index], points[s.index + 1], s.tn, s.td),
        index |-> s.index, tn |-> s.tn, td |-> s.td]

\* the function with finalT left unclamped
getClosestPointOnPolyLine_Unclamped(q, points) ==
    ClosestResult(q, points, FALSE, FALSE)

\* MotionPathDrawContext::getClosestPointOnPolyLine over strokePoints = points
getClosestPointOnPolyLine(q, points) ==
    ClosestResult(q, points, FALSE, TRUE)

\* MotionPathEditContext::getClosestPointOnPolyLine over drawStrokePoints = points
getClosestPointOnPolyLineEdit(q, points) ==
    ClosestResult(q, points, TRUE, TRUE)

\* (a - b).length() where it is a whole number
IsWhole(a, b) ==
    \E r \in 0 .. (Abs(a.x - b.x) + Abs(a.y - b.y)) :
        r * r = Dot(Sub(a, b), Sub(a, b))
Length(a, b) ==
    CHOOSE r \in 0 .. (Abs(a.x - b.x) + Abs(a.y - b.y)) :
        r * r = Dot(Sub(a, b), Sub(a, b))
\* spread is modelled for the strokes whose segments have whole lengths
WholeStroke(points) ==
    \A j \in 1 .. (Len(points) - 1) : IsWhole(points[j], points[j + 1])

RECURSIVE SumTo(_, _)
SumTo(seq, n) == IF n = 0 THEN 0 ELSE SumTo(seq, n - 1) + seq[n]

\* doReleaseCommon: segmentLenghts.resize(strokeNum), then
\* for (int i = 1; i < strokeNum; ++i) segmentLenghts[i-1] = ...
segmentLenghtsOf(points) ==
    LET strokeNum == Len(points) - 1
    IN [j \in 1 .. strokeNum |->
           IF j < strokeNum THEN Length(points[j + 1], points[j]) ELSE 0]

\* MotionPathDrawContext::getSpreadPointOnPolyLine; tl = tlN / pointSize
getSpreadPointOnPolyLine(i, pointSize, strokeLenght, segmentLenghts) ==
    IF i = pointSize - 1
    THEN Exact(strokePoints[Len(strokePoints)])
    ELSE LET tlN == (i + 1) * strokeLenght
             Before(j) == SumTo(segmentLenghts, j)
             hits == {j \in 0 .. (Len(strokePoints) - 2) :
                         /\ tlN > Before(j) * pointSize
                         /\ tlN < (Before(j) + segmentLenghts[j + 1]) * pointSize}
             found == hits # {}
             currentSegmentIndex ==
                 IF found THEN CHOOSE j \in hits : \A k \in hits : j <= k ELSE 0
             currentSegmentLenght ==
                 IF found THEN Before(currentSegmentIndex)
                 ELSE Before(Len(strokePoints) - 1)
         IN Interp(strokePoints[currentSegmentIndex + 1],
                   strokePoints[currentSegmentIndex + 2],
                   tlN - currentSegmentLenght * pointSize,
                   pointSize * segmentLenghts[currentSegmentIndex + 1])

\* MotionPathEditContext::getSpreadPointOnPolyLine over drawStrokePoints =
\* strokePoints: a target that no segment holds strictly inside is put on the
\* last segment, and a segment of length 0 gives its first sample
getSpreadPointOnPolyLineEdit(i, pointSize, strokeLenght, segmentLenghts) ==
    IF i = pointSize - 1
    THEN Exact(strokePoints[Len(strokePoints)])
    ELSE LET tlN == (i + 1) * strokeLenght
             Before(j) == SumTo(segmentLenghts, j)
             hits == {j \in 0 .. (Len(strokePoints) - 2) :
                         /\ tlN > Before(j) * pointSize
                         /\ tlN < (Before(j) + segmentLenghts[j + 1]) * pointSize}
             found == hits # {}
             currentSegmentIndex ==
                 IF found THEN CHOOSE j \in hits : \A k \in hits : j <= k
                 ELSE IF Len(strokePoints) >= 2 THEN Len(strokePoints) - 2
                 ELSE 0
             currentSegmentLenght ==
                 IF found THEN Before(currentSegmentIndex)
                 ELSE Before(Len(strokePoints) - 1)
         IN IF segmentLenghts[currentSegmentIndex + 1] = 0
            THEN Exact(strokePoints[currentSegmentIndex + 1])
            ELSE Interp(strokePoints[currentSegmentIndex + 1],
                        strokePoints[currentSegmentIndex + 2],
                        tlN - currentSegmentLenght * pointSize,
                        pointSize * segmentLenghts[currentSegmentIndex + 1])

\* MotionPath::getKeys: the times of the records, ascending.  The code indexes
\* the array from 0: its keys[i] is getKeys[i + 1].
getKeys == MapOrder(keyframesCache)

\* how the view may project the keys of the path, each relative to the grabbed
\* key: KeyScreen scatters them, "ahead" puts the grabbed key on the press
\* position with the following keys around the stroke, "behind" puts both
\* neighbours of the grabbed key on the side the stroke leaves
Layouts == {"scattered", "ahead", "behind"}

\* getkeyScreenPosition of the key j places after the grabbed one (j < 0:
\* before it)
getkeyScreenPosition(layout, j) ==
    IF layout = "ahead" /\ j \in 0 .. 4
    THEN <<Vec(0, 0), Vec(26, -8), Vec(-3, -1), Vec(16, 8), Vec(12, 5)>>[j + 1]
    ELSE IF layout = "behind" /\ j \in -1 .. 1
    THEN <<Vec(-8, -6), Vec(0, 0), Vec(-6, -8)>>[j + 2]
    ELSE KeyScreen(j)

Sign(n) == IF n > 0 THEN 1 ELSE IF n < 0 THEN -1 ELSE 0

\* a / b > c / d for a, c >= 0 and b, d > 0, by continued fractions (no product
\* is formed)
RECURSIVE FracGreater(_, _, _, _)
FracGreater(a, b, c, d) ==
    IF a \div b # c \div d THEN a \div b > c \div d
    ELSE IF a % b = 0 THEN FALSE
    ELSE IF c % d = 0 THEN TRUE
    ELSE FracGreater(d, c % d, b, a % b)

\* the dot product of a normalized vector v with a vector w, as the pair of
\* v . w and |v|^2 (a zero vector stays zero under normalize: dot 0)
UnitDot(v, w) == [n |-> Dot(v, w), len2 |-> Dot(v, v)]
\* dot1 > dot2 for two such products with the same w
UnitDotGreater(dot1, dot2) ==
    IF Sign(dot1.n) # Sign(dot2.n) THEN Sign(dot1.n) > Sign(dot2.n)
    ELSE IF dot1.n = 0 THEN FALSE
    ELSE IF dot1.n > 0
    THEN FracGreater(dot1.n * dot1.n, dot1.len2, dot2.n * dot2.n, dot2.len2)
    ELSE FracGreater(dot2.n * dot2.n, dot2.len2, dot1.n * dot1.n, dot1.len2)

\* doReleaseCommon: directionalVector, the sum of strokePoints[i] -
\* strokePoints[0].  The code divides it by strokeNum and normalizes it, which
\* changes neither the sign of a dot product with it nor the order of two.
RECURSIVE DirectionalSum(_, _)
DirectionalSum(points, i) ==
    IF i < 2 THEN Vec(0, 0)
    ELSE LET rest == DirectionalSum(points, i - 1)
             d == Sub(points[i], points[1])
         IN Vec(rest.x + d.x, rest.y + d.y)
DirectionalVector(points) == DirectionalSum(points, Len(points))

\* getStrokeDirection, with the two dot products it decided on
getStrokeDirection(directionalVector, keys, selectedIndex, layout) ==
    LET pos == getkeyScreenPosition(layout, 0)
        pp == IF selectedIndex = 0 THEN Vec(0, 0)
              ELSE Sub(getkeyScreenPosition(layout, -1), pos)
        ap == IF selectedIndex = Len(keys) - 1 THEN Vec(0, 0)
              ELSE Sub(getkeyScreenPosition(layout, 1), pos)
        dot1 == UnitDot(pp, directionalVector)
        dot2 == UnitDot(ap, directionalVector)
    IN [dot1 |-> Sign(dot1.n),
        dot2 |-> Sign(dot2.n),
        direction |-> IF dot1.n = 0 /\ dot2.n < 0 THEN 0
                      ELSE IF dot2.n = 0 /\ dot1.n < 0 THEN 0
                      ELSE IF UnitDotGreater(dot1, dot2) THEN -1 ELSE 1]

\* doReleaseCommon: int MAX_SKIPPED = 5
MAX_SKIPPED == 5

\* what the memory past the ends of the key array may read as: a key further
\* from the end of the stroke than every key so far, or one that is not
BeyondKinds == {"further", "nearer"}

\* doReleaseCommon: the walk from the grabbed key, for (i = selectedIndex +
\* direction; true; i += direction), entered with i.  w holds cache and
\* tempCache (as key indices), skipped, distance (squared) and the indices
\* read.  keys[i] is read without a test of i: an index outside the array
\* reads what lies beyond it, where i is no boundary index, so that "further"
\* values end the walk by MAX_SKIPPED and "nearer" values never end it.
RECURSIVE StrokeWalk(_, _, _, _, _, _, _, _)
StrokeWalk(w, i, direction, keys, selectedIndex, layout, lastStrokePos, beyond) ==
    LET read == [w EXCEPT !.reads = @ \cup {i}]
        inside == i >= 0 /\ i < Len(keys)
        pos == getkeyScreenPosition(layout, i - selectedIndex)
        thisDistance == Dot(Sub(lastStrokePos, pos), Sub(lastStrokePos, pos))
        isFurther == IF inside THEN thisDistance > w.distance
                     ELSE beyond = "further"
        boundary == i = 0 \/ i = Len(keys) - 1
    IN IF ~ inside /\ beyond = "nearer"
       THEN [read EXCEPT !.terminates = FALSE]
       ELSE IF isFurther
       THEN IF w.skipped + 1 > MAX_SKIPPED \/ boundary
            THEN [read EXCEPT !.skipped = @ + 1]
            ELSE StrokeWalk([read EXCEPT !.skipped = @ + 1,
                                         !.tempCache = Append(@, i)],
                            i + direction, direction, keys, selectedIndex,
                            layout, lastStrokePos, beyond)
       ELSE LET taken == [read EXCEPT !.skipped = 0,
                                      !.cache = (@ \o w.tempCache) \o <<i>>,
                                      !.tempCache = <<>>,
                                      !.distance = thisDistance]
            IN IF boundary THEN taken
               ELSE StrokeWalk(taken, i + direction, direction, keys,
                               selectedIndex, layout, lastStrokePos, beyond)

\* doReleaseCommon from getKeys to pointSize: the index search, the direction
\* test and the walk
CandidateWalk(layout, beyond) ==
    LET keys == getKeys
        strokeNum == Len(strokePoints) - 1
        found == {i \in 0 .. (Len(keys) - 1) : keys[i + 1] = selectedTime}
        selectedIndex == IF found = {} THEN Len(keys)
                         ELSE CHOOSE i \in found : \A k \in found : i <= k
        d == getStrokeDirection(DirectionalVector(strokePoints), keys,
                                selectedIndex, layout)
        lastStrokePos == strokePoints[strokeNum + 1]
        toGrabbed == Sub(lastStrokePos, getkeyScreenPosition(layout, 0))
        start == [cache |-> <<>>, tempCache |-> <<>>, skipped |-> 0,
                  distance |-> Dot(toGrabbed, toGrabbed),
                  reads |-> {selectedIndex}
                            \cup (IF selectedIndex = 0 THEN {}
                                  ELSE {selectedIndex - 1})
                            \cup (IF selectedIndex = Len(keys) - 1 THEN {}
                                  ELSE {selectedIndex + 1}),
                  terminates |-> TRUE]
        w == IF d.direction = 0 THEN start
             ELSE StrokeWalk(start, selectedIndex + d.direction, d.direction,
                             keys, selectedIndex, layout, lastStrokePos, beyond)
    IN [layout |-> layout, selectedIndex |-> selectedIndex,
        numKeys |-> Len(keys), dot1 |-> d.dot1, dot2 |-> d.dot2,
        direction |-> d.direction, reads |-> w.reads,
        terminates |-> w.terminates,
        cache |-> w.cache]

\* the walk record of a release that walked nothing
NoWalk ==
    [layout |-> "none", selectedIndex |-> 0, numKeys |-> 0, dot1 |-> 0,
     dot2 |-> 0, direction |-> 0, reads |-> {}, terminates |-> TRUE,
     cache |-> <<>>, removed |-> {}, added |-> {}, returned |-> TRUE]

\* MotionPath::deleteKeyFrameAtTime(time, change, false): the key at the time
\* is removed from each of the six curves that has one
deleteKeyFrameAtTime(cv, time) == [c \in CurveNames |-> cv[c] \ {time}]

\* MotionPath::addKeyFrameAtTime(time, change, position, false): a key on
\* curveX, curveY and curveZ
addKeyFrameAtTime(cv, time) ==
    [c \in CurveNames |-> IF c \in TranslateCurves THEN cv[c] \cup {time}
                          ELSE cv[c]]

RECURSIVE DeleteAll(_, _)
DeleteAll(cv, times) ==
    IF times = <<>> THEN cv
    ELSE DeleteAll(deleteKeyFrameAtTime(cv, times[Len(times)]),
                   SubSeq(times, 1, Len(times) - 1))

RECURSIVE AddAll(_, _)
AddAll(cv, times) ==
    IF times = <<>> THEN cv
    ELSE AddAll(addKeyFrameAtTime(cv, Head(times)), Tail(times))

\* MotionPath::getTimeFromKeyId
getTimeFromKeyId(id) ==
    LET order == MapOrder(keyframesCache)
        found == {n \in 1 .. Len(order) : keyframesCache[order[n]].id = id}
    IN IF found = {} THEN 0
       ELSE keyframesCache[order[CHOOSE n \in found : \A m \in found : n <= m]].time

\* doPressCommon, left button on a key of the path: the key is selected
\* (selectKeyAtTime enters its time in selectedKeyTimes); with Ctrl a stroke
\* gesture starts, without it a draw gesture; both start the polyline with the
\* press position
doPressCommon ==
    /\ currentMode = "none"
    /\ \E hit \in DOMAIN keyframesCache, ctrl \in BOOLEAN :
          LET selectedKeyId == keyframesCache[hit].id
          IN /\ selectedTime' = getTimeFromKeyId(selectedKeyId)
             /\ selectedKeyTimes' = selectedKeyTimes \cup {selectedTime'}
             /\ currentMode' = IF ctrl THEN "stroke" ELSE "draw"
             /\ isDrawing' = IF ctrl THEN isDrawing ELSE TRUE
             /\ endDrawingTime' = IF ctrl THEN endDrawingTime ELSE selectedTime'
    /\ strokePoints' = <<PressPoint>>
    /\ strokeCache' = <<>>
    /\ fitMode' = -1
    /\ drawn' = "stale"
    /\ selectedMotionPathPtr' = TRUE
    /\ selectedFromTool' = TRUE
    /\ walk' = NoWalk
    /\ UNCHANGED <<cacheVars, curves, showRotationKeyFrames, displayStartTime,
                   displayEndTime, keyframesCache, motionPathDrawMode>>

\* doDrag while a gesture collects the polyline (kStroke in doDrag, kDraw in
\* doDragCommon): the position is appended when it is further than the
\* threshold from the last sample
doDrag ==
    /\ currentMode \in {"stroke", "draw"}
    /\ Len(strokePoints) < MaxSamples
    /\ \E v \in ScreenPoints :
          strokePoints' =
              IF Len(strokePoints) = 0 THEN <<v>>
              ELSE LET last == strokePoints[Len(strokePoints)]
                   IN IF Dot(Sub(v, last), Sub(v, last))
                           > SAMPLE_THRESHOLD * SAMPLE_THRESHOLD
                      THEN Append(strokePoints, v)
                      ELSE strokePoints
    /\ UNCHANGED <<cacheVars, keyVars, selectedTime, strokeCache, fitMode,
                   toolVars>>

\* doReleaseCommon, the statements after the gesture branches: the track is
\* deselected and let go.  They are not reached when the handler has returned
\* from the matching loop or is still in the walk.
ReleaseTail(reached) ==
    /\ selectedKeyTimes' = IF reached THEN {} ELSE selectedKeyTimes
    /\ selectedFromTool' = IF reached THEN FALSE ELSE selectedFromTool
    /\ isDrawing' = IF reached THEN FALSE ELSE isDrawing
    /\ selectedMotionPathPtr' = IF reached THEN FALSE ELSE selectedMotionPathPtr
    /\ currentMode' = IF reached THEN "none" ELSE currentMode

\* doReleaseCommon, the matching loop: the candidates of the walk fitted to
\* the polyline, cache[i].screenPosition for every i
FitStroke(strokeMode, w) ==
    LET pointSize == Len(w.cache)
        segmentLenghts == segmentLenghtsOf(strokePoints)
        strokeLenght == SumTo(segmentLenghts, Len(segmentLenghts))
    IN [n \in 1 .. pointSize |->
           LET originalScreenPosition ==
                   getkeyScreenPosition(w.layout, w.cache[n] - w.selectedIndex)
           IN [time |-> getKeys[w.cache[n] + 1],
               originalScreenPosition |-> originalScreenPosition,
               screenPosition |->
                   IF strokeMode = 0
                   THEN getClosestPointOnPolyLine(originalScreenPosition,
                                                  strokePoints).point
                   ELSE getSpreadPointOnPolyLine(n - 1, pointSize, strokeLenght,
                                                 segmentLenghts)]]

\* the times of the first n candidates, in cache order
CandidateTimes(w, n) == [k \in 1 .. n |-> getKeys[w.cache[k] + 1]]

\* doReleaseCommon while the tool holds a track in a stroke gesture.  With more
\* than two samples the candidates of the walk are deleted from the curves,
\* fitted to the polyline and added again one by one; in the camera-space
\* display worldCameraSpaceToWorldSpace may fail for the candidate failAt
\* (failAt = pointSize: for none), and the handler then returns at once.  A
\* walk that never ends leaves the handler inside it.
doReleaseCommon ==
    /\ selectedMotionPathPtr
    /\ currentMode = "stroke"
    /\ IF Len(strokePoints) - 1 > 1
       THEN \E layout \in Layouts, beyond \in BeyondKinds, strokeMode \in {0, 1} :
             \E w \in {CandidateWalk(layout, beyond)} :
               LET pointSize == Len(w.cache)
                   cameraSpace == motionPathDrawMode = "camera"
               IN /\ beyond = "nearer" => ~ w.terminates
                  /\ strokeMode = 1 => pointSize > 0 /\ WholeStroke(strokePoints)
                  /\ \E failAt \in (IF cameraSpace /\ w.terminates
                                     THEN 0 .. pointSize ELSE {pointSize}) :
                        LET returned == w.terminates /\ failAt = pointSize
                            removed == IF w.terminates
                                       THEN CandidateTimes(w, pointSize)
                                       ELSE <<>>
                            added == CandidateTimes(w, IF w.terminates
                                                       THEN failAt ELSE 0)
                            st == EnsureAll(CacheSt(pMatrixCache, <<>>), added)
                        IN /\ curves' = AddAll(DeleteAll(curves, removed), added)
                           /\ pMatrixCache' = st.cache
                           /\ strokeCache' =
                                  IF w.terminates /\ pointSize > 0
                                  THEN FitStroke(strokeMode, w) ELSE <<>>
                           /\ fitMode' = IF w.terminates /\ pointSize > 0
                                         THEN strokeMode ELSE -1
                           /\ walk' = w @@ [removed |-> Range(removed),
                                            added |-> Range(added),
                                            returned |-> returned]
                           /\ ReleaseTail(returned)
       ELSE /\ walk' = NoWalk
            /\ ReleaseTail(TRUE)
            /\ UNCHANGED <<curves, pMatrixCache, strokeCache, fitMode>>
    /\ drawn' = "stale"
    /\ UNCHANGED <<openmp, scene, cachedRangeStart, cachedRangeEnd,
                   pMatrixCacheValid, call, showRotationKeyFrames,
                   displayStartTime, displayEndTime, endDrawingTime,
                   keyframesCache, selectedTime, strokePoints,
                   motionPathDrawMode>>

----------------------------------------------------------------------------
\* The draw gesture: keys sampled from the drawn polyline

\* no draw gesture has been released
NoDrawRelease ==
    [made |-> FALSE, selectedTime |-> 0, keyframeCount |-> 0, frameInterval |-> 0,
     totalPoints |-> 0, pointIndex |-> <<>>, failed |-> {}, cameraSpace |-> FALSE,
     before |-> <<>>, after |-> <<>>]

\* GlobalSettings::drawKeyframeCount and drawFrameInterval as the release reads them
DrawCounts == 0 .. MaxDrawCount
DrawIntervals == 0 .. MaxDrawInterval

\* int pointIndex = (int)((double)(i + 1) * (totalPoints - 1) / (keyframeCount + 1)),
\* then held inside 1 .. totalPoints - 1
DrawPointIndex(i, totalPoints, keyframeCount) ==
    LET sampled == ((i + 1) * (totalPoints - 1)) \div (keyframeCount + 1)
        capped == IF sampled >= totalPoints THEN totalPoints - 1 ELSE sampled
    IN IF capped < 1 THEN 1 ELSE capped

\* the positions the pointer reports during a draw gesture: the press position
\* and one further from it than the sampling threshold
DrawnPositions == {PressPoint, Vec(9, 0)}

\* MotionPathDrawContext::doDragCommon in a draw gesture: the position is
\* appended when it is further than the threshold from the last sample
doDragCommon ==
    /\ selectedMotionPathPtr
    /\ currentMode = "draw"
    /\ Len(strokePoints) < MaxSamples
    /\ \E v \in DrawnPositions :
          strokePoints' =
              IF Len(strokePoints) > 0
              THEN LET last == strokePoints[Len(strokePoints)]
                   IN IF Dot(Sub(v, last), Sub(v, last))
                           > SAMPLE_THRESHOLD * SAMPLE_THRESHOLD
                      THEN Append(strokePoints, v)
                      ELSE strokePoints
              ELSE <<v>>
    /\ UNCHANGED <<cacheVars, keyVars, selectedTime, strokeCache, fitMode,
                   toolVars, cmdVars>>

\* the kDraw branch of the release, from "int keyframeCount" to
\* setEndrawingTime(rangeEnd), for a polyline of totalPoints > 1 samples.
\* setting is GlobalSettings::drawFrameInterval; failed holds the loop indices
\* whose worldCameraSpaceToWorldSpace fails (camera-space display only).
DrawKeys(cv, cacheMap, anchorTime, totalPoints, keyframeCount, setting, failed) ==
    LET frameInterval == IF setting <= 0 THEN 1 ELSE setting
        rangeEnd == anchorTime + (keyframeCount * frameInterval)
        loop == IF keyframeCount > 0 THEN 1 .. keyframeCount ELSE {}
        keyTime == [k \in loop |-> anchorTime + (k * frameInterval)]
        reached(t) == \E k \in loop : keyTime[k] = t /\ (k - 1) \notin failed
        added == SelectSeq(keyTime, reached)
    IN [curves |-> AddAll(deleteAllKeyFramesInRange(cv, anchorTime, rangeEnd), added),
        cache |-> EnsureAll(CacheSt(cacheMap, <<>>), added).cache,
        rangeEnd |-> rangeEnd,
        pointIndex |-> [k \in loop |-> DrawPointIndex(k - 1, totalPoints, keyframeCount)]]

\* MotionPathDrawContext::doReleaseCommon while the tool holds a track in a
\* draw gesture.  With more than one sample the keys of (selectedTime, rangeEnd]
\* are deleted and keyframeCount keys are added, frameInterval frames apart;
\* in the camera-space display the conversion fails for no key or for one.
\* mpManager.refreshDisplayTimeRange() then sets the display window again
\* (setDisplayTimeRange holds its end at the last key): the end is kept or
\* moves to the end of the drawn range.
doReleaseCommonDraw ==
    /\ selectedMotionPathPtr
    /\ currentMode = "draw"
    /\ IF Len(strokePoints) > 1
       THEN \E keyframeCount \in DrawCounts, setting \in DrawIntervals :
               LET cameraSpace == motionPathDrawMode = "camera"
                   totalPoints == Len(strokePoints)
               IN \E failed \in (IF cameraSpace
                                 THEN {{}} \cup {{i} : i \in 0 .. (keyframeCount - 1)}
                                 ELSE {{}}) :
                     LET r == DrawKeys(curves, pMatrixCache, selectedTime, totalPoints,
                                       keyframeCount, setting, failed)
                     IN /\ curves' = r.curves
                        /\ pMatrixCache' = r.cache
                        /\ endDrawingTime' = r.rangeEnd
                        /\ displayEndTime' \in {displayEndTime,
                                               Max(displayEndTime, r.rangeEnd)}
                        /\ drawRelease' =
                              [made |-> TRUE, selectedTime |-> selectedTime,
                               keyframeCount |-> keyframeCount,
                               frameInterval |-> setting,
                               totalPoints |-> totalPoints,
                               pointIndex |-> r.pointIndex, failed |-> failed,
                               cameraSpace |-> cameraSpace,
                               before |-> curves, after |-> r.curves]
       ELSE /\ drawRelease' = NoDrawRelease
            /\ UNCHANGED <<curves, pMatrixCache, endDrawingTime, displayEndTime>>
    /\ ReleaseTail(TRUE)
    /\ drawn' = "stale"
    /\ walk' = NoWalk
    /\ UNCHANGED <<openmp, scene, cachedRangeStart, cachedRangeEnd,
                   pMatrixCacheValid, call, showRotationKeyFrames,
                   displayStartTime, keyframesCache, strokeVars,
                   motionPathDrawMode, classified, copied, editTool, locked>>

----------------------------------------------------------------------------
\* The draw tool's gestures with the calls they make on the undo recorder

\* no call on the undo recorder yet, no release yet
NoUndoCalls == [started |-> 0, stopped |-> 0, released |-> FALSE]

\* mpManager.startAnimUndoRecording() and mpManager.stopDGAndAnimUndoRecording()
\* as the log of the gesture sees them
startAnimUndoRecording(u) == [u EXCEPT !.started = @ + 1]
stopDGAndAnimUndoRecording(u) == [u EXCEPT !.stopped = @ + 1]

\* the current frame at a middle-button press
ClickTimes == 1 .. GestureKeys

\* MotionPath::getBoundariesForTime and the choice of keyTime in doPressCommon:
\* the nearest record before the time, else the nearest after it, else the time
ClickKeyTime(time) ==
    LET times == {keyframesCache[k].time : k \in DOMAIN keyframesCache}
        before == {t \in times : t < time}
        after == {t \in times : t > time}
    IN IF before # {} THEN CHOOSE t \in before : \A u \in before : u <= t
       ELSE IF after # {} THEN CHOOSE t \in after : \A u \in after : t <= u
       ELSE time

\* doPressCommon, middle button (the manager holds a track): the tool takes the
\* first track, and a key is added at the current frame under the pointer.  In
\* the camera-space display worldCameraSpaceToWorldSpace may fail; the handler
\* then returns before it starts the undo recording and adds the key.
doPressCommonClickAdd ==
    /\ currentMode = "none"
    /\ \E now \in ClickTimes,
          converted \in (IF motionPathDrawMode = "camera" THEN BOOLEAN ELSE {TRUE}) :
          LET \* getWorldPositionAtTime(keyTime)
              st1 == ensureParentAndPivotMatrixAtTime(CacheSt(pMatrixCache, <<>>),
                                                      Tick(ClickKeyTime(now)))
              \* addKeyFrameAtTime(selectedTime, change, &newPosition)
              st2 == ensureParentAndPivotMatrixAtTime(st1, Tick(now))
          IN /\ selectedTime' = now
             /\ curves' = IF converted THEN addKeyFrameAtTime(curves, now) ELSE curves
             /\ pMatrixCache' = IF converted THEN st2.cache ELSE st1.cache
             /\ undoCalls' = IF converted THEN startAnimUndoRecording(NoUndoCalls)
                             ELSE NoUndoCalls
    /\ selectedMotionPathPtr' = TRUE
    /\ selectedFromTool' = TRUE
    /\ currentMode' = "clickAddWorld"
    /\ drawn' = "stale"
    /\ UNCHANGED <<openmp, scene, cachedRangeStart, cachedRangeEnd,
                   pMatrixCacheValid, call, showRotationKeyFrames,
                   displayStartTime, displayEndTime, isDrawing, endDrawingTime,
                   selectedKeyTimes, keyframesCache, strokePoints, strokeCache,
                   fitMode, motionPathDrawMode, walk, classified, copied,
                   editTool, drawRelease, locked>>

\* doPressCommon, a key of the path hit: startAnimUndoRecording() before the
\* gesture mode is chosen
doPressCommonOnKey ==
    /\ doPressCommon
    /\ undoCalls' = startAnimUndoRecording(NoUndoCalls)
    /\ UNCHANGED <<classified, copied, editTool, drawRelease, locked>>

\* doReleaseCommon in a stroke gesture: stopDGAndAnimUndoRecording() is among
\* the statements after the gesture branches
doReleaseCommonStroke ==
    /\ doReleaseCommon
    /\ undoCalls' = [(IF walk'.returned THEN stopDGAndAnimUndoRecording(undoCalls)
                      ELSE undoCalls) EXCEPT !.released = TRUE]
    /\ UNCHANGED <<classified, copied, editTool, drawRelease, locked>>

\* doReleaseCommon in a draw gesture: its branch does not return early
doReleaseCommonDrawn ==
    /\ doReleaseCommonDraw
    /\ undoCalls' = [stopDGAndAnimUndoRecording(undoCalls) EXCEPT !.released = TRUE]

\* doReleaseCommon after a middle-button press: neither gesture branch is
\* taken; currentMode != kNoneMode, so the recording is stopped
doReleaseCommonClickAdd ==
    /\ selectedMotionPathPtr
    /\ currentMode = "clickAddWorld"
    /\ ReleaseTail(TRUE)
    /\ undoCalls' = [stopDGAndAnimUndoRecording(undoCalls) EXCEPT !.released = TRUE]
    /\ UNCHANGED <<cacheVars, curves, showRotationKeyFrames, displayStartTime,
                   displayEndTime, endDrawingTime, keyframesCache, drawn,
                   strokeVars, motionPathDrawMode, walk, classified, copied,
                   editTool, drawRelease, locked>>

----------------------------------------------------------------------------
\* Interactive locked mode: the refresh of the parent matrices on a
\* world-matrix-changed notification

\* the mouse buttons QApplication::mouseButtons() can report
Buttons == {"left", "middle"}

\* the host changes the world matrix of the object (the scene becomes the other
\* version) and calls MotionPath::worldMatrixChangedCallback.  The callback
\* returns early during playback or scrubbing with auto key, and when the
\* object is the only one selected.
worldMatrixChangedCallback ==
    /\ locked.pc = "idle"
    /\ scene' = 1 - scene
    /\ \E returnsEarly \in BOOLEAN :
          locked' = IF locked.lockedModeInteractive /\ ~ returnsEarly
                    THEN [locked EXCEPT !.worldSpaceCallbackCalled = TRUE]
                    ELSE locked
    /\ UNCHANGED <<openmp, pMatrixCache, cachedRangeStart, cachedRangeEnd,
                   pMatrixCacheValid, call, keyVars, strokeVars, toolVars,
                   classified, copied, editTool, drawRelease, undoCalls>>

\* the user presses or lets go of a mouse button
MouseButton ==
    /\ locked.pc = "idle"
    /\ \E b \in Buttons :
          locked' = [locked EXCEPT !.mouseButtons =
                        IF b \in @ THEN @ \ {b} ELSE @ \cup {b}]
    /\ UNCHANGED <<cacheVars, keyVars, strokeVars, toolVars,
                   classified, copied, editTool, drawRelease, undoCalls>>

\* the test of the refresh block asking for no button at all
RefreshDue_NoButton(l) ==
    /\ l.lockedModeInteractive
    /\ l.worldSpaceCallbackCalled
    /\ l.mouseButtons = {}

\* GlobalSettings::lockedMode && GlobalSettings::lockedModeInteractive &&
\* getWorldSpaceCallbackCalled(), and QApplication::mouseButtons() !=
\* Qt::LeftButton: the buttons held are not exactly the left one
RefreshDue(l) ==
    /\ l.lockedModeInteractive
    /\ l.worldSpaceCallbackCalled
    /\ l.mouseButtons # {"left"}

\* MotionPath::draw up to "cacheParentMatrixRange(displayStartTime,
\* displayEndTime)": in interactive locked mode with the notification pending
\* and QApplication::mouseButtons() != Qt::LeftButton it clears the parent
\* matrix cache, rebuilds the window round the current frame
\* (cacheParentMatrixRangeForWorldCallback: cacheParentMatrixRange() between
\* updateCurve and restoreCurve of the ancestor's curves) and resets the flag
drawRefresh ==
    /\ locked.pc = "idle"
    /\ LET refresh == RefreshDue(locked)
       IN /\ IF refresh
             THEN \E cur \in EnsureTimes, framesBack \in 0 .. MaxSpan,
                     framesFront \in 0 .. MaxSpan :
                     LET s0 == cur - framesBack
                         e0 == cur + framesFront
                         s == IF s0 < TimelineStart THEN TimelineStart ELSE s0
                         e == IF e0 > TimelineEnd THEN TimelineEnd ELSE e0
                         \* clearParentMatrixCache()
                         cleared == CacheSt(<<>>, <<>>)
                         \* cacheParentMatrixRange() on the cleared, invalid cache
                         r == FullRebuild(cleared, s, e)
                     IN /\ pMatrixCache' = r.st.cache
                        /\ cachedRangeStart' = s
                        /\ cachedRangeEnd' = e
                        /\ pMatrixCacheValid' = TRUE
                        /\ call' = Call("cacheRange", s, e, r.path, r.st.evals, FALSE)
             ELSE UNCHANGED <<pMatrixCache, cachedRangeStart, cachedRangeEnd,
                              pMatrixCacheValid, call>>
          /\ locked' = [locked EXCEPT
                           !.worldSpaceCallbackCalled = IF refresh THEN FALSE ELSE @,
                           !.pc = "body",
                           !.steps = IF refresh
                                     THEN <<"clearParentMatrixCache",
                                            "cacheParentMatrixRangeForWorldCallback",
                                            "setWorldSpaceCallbackCalled">>
                                     ELSE <<>>,
                           !.heldAtDraw = locked.mouseButtons,
                           !.calledAtDraw = locked.worldSpaceCallbackCalled]
    /\ UNCHANGED <<openmp, scene, keyVars, strokeVars, toolVars,
                   classified, copied, editTool, drawRelease, undoCalls>>

\* MotionPath::draw from "cacheParentMatrixRange(displayStartTime,
\* displayEndTime)" on
drawBody ==
    /\ locked.pc = "body"
    /\ draw
    /\ locked' = [locked EXCEPT !.pc = "idle"]
    /\ UNCHANGED <<classified, copied, editTool, drawRelease, undoCalls>>

----------------------------------------------------------------------------
\* The edit tool (MotionPathEditContext) with Caps Lock off

\* MotionPathEditContext::modifySelection for one track and one hit key.
\* selectKeyAtTime enters the time in the selected-time set, deselectKeyAtTime
\* takes it out, isKeyAtTimeSelected looks it up, deselectAllKeys empties it.
modifySelection(selected, time, ctrl, shift) ==
    IF ctrl
    THEN IF time \in selected THEN selected \ {time} ELSE selected \cup {time}
    ELSE IF shift THEN selected \cup {time}
    ELSE IF time \in selected THEN selected
    ELSE {time}

\* MotionPathEditContext::doPressCommon, isCapsLockOn() false and key frames
\* shown: nothing is hit, or the path, or a key of the path (a tangent handle
\* is not)
EditDoPressCommon ==
    /\ editTool.currentMode = "none"
    /\ \E hit \in {"none", "path", "key"}, button \in {"left", "middle"},
          ctrl \in BOOLEAN, shift \in BOOLEAN,
          id \in {keyframesCache[k].id : k \in DOMAIN keyframesCache} \cup {-1} :
          /\ hit = "key" <=> id # -1
          /\ LET lastSelectedTime == IF hit = "key" THEN getTimeFromKeyId(id) ELSE 0
                 modifies == hit = "key" /\ button = "left" /\ ~ ctrl
             IN /\ editTool' =
                      [capsLockCached |-> FALSE, capsLockValid |-> TRUE,
                       selectedMotionPathPtr |-> hit # "none",
                       startedRecording |-> FALSE,
                       currentMode |-> IF hit = "key" THEN "frameEdit" ELSE "none",
                       pressed |-> [hit |-> hit, time |-> lastSelectedTime,
                                    button |-> button, ctrl |-> ctrl,
                                    shift |-> shift, before |-> selectedKeyTimes]]
                /\ selectedFromTool' = IF hit # "none" THEN TRUE ELSE selectedFromTool
                /\ selectedKeyTimes' =
                      IF modifies
                      THEN modifySelection(selectedKeyTimes, lastSelectedTime,
                                           FALSE, shift)
                      ELSE selectedKeyTimes
    /\ UNCHANGED <<cacheVars, curves, showRotationKeyFrames, displayStartTime,
                   displayEndTime, isDrawing, endDrawingTime, keyframesCache,
                   currentMode, drawn>>
    /\ UNCHANGED <<strokeVars, selectedMotionPathPtr, motionPathDrawMode, walk,
                   classified, copied, sessionVars>>

\* MotionPathEditContext::doReleaseCommon, the press having found Caps Lock
\* off, without a drag in between
EditDoReleaseCommon ==
    /\ editTool.capsLockValid
    /\ ~ editTool.capsLockCached
    /\ editTool' = [editTool EXCEPT !.capsLockValid = FALSE,
                                    !.selectedMotionPathPtr = FALSE,
                                    !.currentMode = "none"]
    /\ selectedFromTool' =
          IF editTool.selectedMotionPathPtr THEN FALSE ELSE selectedFromTool
    /\ UNCHANGED <<cacheVars, keyVars, strokeVars, selectedMotionPathPtr,
                   motionPathDrawMode, walk, classified, copied, sessionVars>>

----------------------------------------------------------------------------
\* Initial states and specifications

\* no tangent is being read or written
NoTrip ==
    [stage |-> "none", angle |-> [n |-> 0, d |-> 1], weight |-> [n |-> 1, d |-> 1],
     isIn |-> FALSE, tangentVal |-> [n |-> 0, d |-> 1],
     original |-> [angle |-> [n |-> 0, d |-> 1], weight |-> [n |-> 1, d |-> 1]],
     writer |-> "none"]

\* a host whose every tangent read succeeds and whose keys all have locked
\* tangents
HostInit == hostTangents = [fails |-> {}, unlocked |-> {}]

\* no command has been given
NoCopy == [made |-> FALSE, before |-> <<>>, times |-> <<>>,
           xKeys |-> <<>>, yKeys |-> <<>>, zKeys |-> <<>>,
           keys |-> <<>>, paste |-> NoPaste]
NotClassified == [asked |-> FALSE, keys |-> {}, time |-> 0, boundary |-> FALSE]
\* MotionPathEditContext::toolOnSetup; nothing pressed yet
NoPress == [hit |-> "none", time |-> 0, button |-> "left", ctrl |-> FALSE,
            shift |-> FALSE, before |-> {}]
EditToolSetup ==
    [capsLockCached |-> FALSE, capsLockValid |-> FALSE,
     selectedMotionPathPtr |-> FALSE, startedRecording |-> FALSE,
     currentMode |-> "none", pressed |-> NoPress]
\* locked mode off, MotionPath::MotionPath: worldSpaceCallbackCalled = false
NotLocked ==
    [lockedModeInteractive |-> FALSE, worldSpaceCallbackCalled |-> FALSE,
     mouseButtons |-> {}, pc |-> "idle", steps |-> <<>>, heldAtDraw |-> {},
     calledAtDraw |-> FALSE]
\* the session before the first gesture
SessionInit ==
    /\ drawRelease = NoDrawRelease
    /\ locked = NotLocked
    /\ undoCalls = NoUndoCalls
CmdInit ==
    /\ classified = NotClassified
    /\ copied = NoCopy
    /\ editTool = EditToolSetup
    /\ SessionInit

\* MotionPath::MotionPath
CacheInit ==
    /\ openmp \in BOOLEAN
    /\ scene = 0
    /\ pMatrixCache = <<>>
    /\ cachedRangeStart = 0
    /\ cachedRangeEnd = 0
    /\ pMatrixCacheValid = FALSE
    /\ call = Call("new", 0, 0, "none", <<>>, FALSE)
    /\ ops = 0
    /\ threePhase = NoRebuild
    /\ otherTrack = [id |-> 1, pMatrixCache |-> <<>>, cachedRangeStart |-> 0,
                     cachedRangeEnd |-> 0, pMatrixCacheValid |-> FALSE,
                     call |-> Call("new", 0, 0, "none", <<>>, FALSE)]

\* a new track showing the frames 1..MaxTime; no gesture under way
TrackInit(placed) ==
    /\ curves = CurvesOf(placed)
    /\ displayStartTime = 1
    /\ displayEndTime = MaxTime
    /\ isDrawing = FALSE
    /\ endDrawingTime = 0
    /\ selectedKeyTimes = {}
    /\ keyframesCache = <<>>
    /\ currentMode = "none"
    /\ drawn = "none"

\* MotionPathDrawContext::toolOnSetup: no gesture under way.  selectedTime is
\* assigned by the press before anything reads it.
ToolInit ==
    /\ selectedTime = 0
    /\ strokePoints = <<>>
    /\ strokeCache = <<>>
    /\ fitMode = -1
    /\ selectedMotionPathPtr = FALSE
    /\ selectedFromTool = FALSE
    /\ walk = NoWalk

\* the cache on its own: a track of an object without keys
Init ==
    /\ CacheInit
    /\ showRotationKeyFrames = TRUE
    /\ TrackInit({})
    /\ ToolInit
    /\ motionPathDrawMode = "world"
    /\ tangentTrip = NoTrip
    /\ HostInit
    /\ CmdInit

CacheOp ==
    \/ CacheRange
    \/ CacheRangeAroundCurrent
    \/ EnsureAtTime
    \/ clearParentMatrixCache

\* the cache operations on a scene that does not change
Next ==
    CacheOp /\ UNCHANGED <<ops, threePhase, otherTrack, keyVars, strokeVars, toolVars, tangentTrip, hostVars, cmdVars>>

Spec == Init /\ [][Next]_vars

\* the cache operations interleaved with scene edits, MaxOps steps long
SceneNext ==
    /\ ops < MaxOps
    /\ ops' = ops + 1
    /\ (CacheOp \/ SceneChange)
    /\ UNCHANGED <<threePhase, otherTrack, keyVars, strokeVars, toolVars, tangentTrip, hostVars, cmdVars>>

SceneSpec == Init /\ [][SceneNext]_vars

\* cacheRange(start, end) from the start of the timeline
CacheRangeFromStart ==
    \E e \in EndFrames : DoCacheRange("cacheRange", TimelineStart, e)

\* cacheRange, ensureAtTime and clear() on two tracks of one scene, MaxOps
\* steps long
TracksNext ==
    /\ ops < MaxOps
    /\ ops' = ops + 1
    /\ \/ CacheRangeFromStart /\ UNCHANGED otherTrack
       \/ EnsureAtTime /\ UNCHANGED otherTrack
       \/ clearParentMatrixCache /\ UNCHANGED otherTrack
       \/ SwitchTrack
    /\ UNCHANGED <<threePhase, keyVars, strokeVars, toolVars, tangentTrip, hostVars, cmdVars>>

TracksSpec == Init /\ [][TracksNext]_vars

\* full rebuilds of more than PARALLEL_MIN_FRAMES frames taken step by step in
\* the OpenMP build, with clear() between them
RebuildNext ==
    /\ \/ BeginRebuild
       \/ Gather
       \/ Fork
       \/ \E t \in Threads : Compose(t)
       \/ Join
       \/ Writeback
       \/ EndRebuild
       \/ threePhase.phase = "idle" /\ clearParentMatrixCache /\ UNCHANGED threePhase
    /\ UNCHANGED <<ops, otherTrack, keyVars, strokeVars, toolVars, tangentTrip, hostVars, cmdVars>>

\* the build with _OPENMP defined
RebuildInit ==
    /\ Init
    /\ openmp

RebuildSpec == RebuildInit /\ [][RebuildNext]_vars

\* a track of an object with keys, drawn and then grabbed with the draw tool, in
\* the build the Makefile makes (no _OPENMP)
KeyInit ==
    /\ CacheInit
    /\ ~ openmp
    /\ showRotationKeyFrames \in BOOLEAN
    /\ \E placed \in KeyPlacements(MaxKeys) : TrackInit(placed)
    /\ ToolInit
    /\ motionPathDrawMode \in {"world", "camera"}
    /\ tangentTrip = NoTrip
    /\ HostInit
    /\ CmdInit

KeyNext ==
    /\ \/ draw
       \/ doPressCommon
    /\ UNCHANGED <<ops, threePhase, otherTrack, tangentTrip, hostVars, cmdVars>>

KeySpec == KeyInit /\ [][KeyNext]_vars

\* the two reads of the tangents of a key
TangentReadsOf(slot) == {<<slot[1], slot[2], isIn>> : isIn \in BOOLEAN}

\* a track with at most MaxKeys translation keys, with or without a rotation
\* key at the frame 1, on a host where the tangent reads of at most one
\* translation key fail and at most one translation key has unlocked tangents
ReadInit ==
    /\ CacheInit
    /\ ~ openmp
    /\ showRotationKeyFrames = TRUE
    /\ \E translated \in {placed \in KeyPlacements(MaxKeys) :
                                \A slot \in placed : slot[1] \in TranslateCurves},
          rotated \in SUBSET {<<"RX", 1>>} :
          /\ TrackInit(translated \cup rotated)
          /\ \E failing \in {{}} \cup {{slot} : slot \in translated},
                unlocked \in {{}} \cup {{slot} : slot \in translated} :
                 \E fails \in SUBSET (UNION {TangentReadsOf(slot) : slot \in failing}) :
                     /\ failing # {} => fails # {}
                     /\ hostTangents = [fails |-> fails, unlocked |-> unlocked]
    /\ ToolInit
    /\ motionPathDrawMode = "world"
    /\ tangentTrip = NoTrip
    /\ CmdInit

\* the draws of such a track while no gesture is under way
ReadNext ==
    /\ draw
    /\ UNCHANGED <<ops, threePhase, otherTrack, tangentTrip, hostVars, cmdVars>>

ReadSpec == ReadInit /\ [][ReadNext]_vars

\* the sets of at least one and at most MaxKeys key times
KeySets == {set \in SUBSET KeyTimes : set # {} /\ Cardinality(set) <= MaxKeys}

\* a track keyed on its three translation axes, each with at most MaxKeys keys
ClipInit ==
    /\ CacheInit
    /\ ~ openmp
    /\ showRotationKeyFrames = TRUE
    /\ \E tx \in KeySets, ty \in KeySets, tz \in KeySets :
          curves = [c \in CurveNames |->
                       CASE c = "TX" -> tx [] c = "TY" -> ty [] c = "TZ" -> tz
                         [] OTHER -> {}]
    /\ displayStartTime = 1
    /\ displayEndTime = MaxTime
    /\ isDrawing = FALSE
    /\ endDrawingTime = 0
    /\ selectedKeyTimes = {}
    /\ keyframesCache = <<>>
    /\ currentMode = "none"
    /\ drawn = "none"
    /\ ToolInit
    /\ motionPathDrawMode = "world"
    /\ tangentTrip = NoTrip
    /\ HostInit
    /\ CmdInit

\* the track is drawn, keys are selected and copied
ClipNext ==
    /\ \/ draw /\ UNCHANGED cmdVars
       \/ selectAllKeys
       \/ invertKeysSelection
       \/ storeSelectedKeysInClipboard
    /\ UNCHANGED <<ops, threePhase, otherTrack, tangentTrip, hostVars>>

ClipSpec == ClipInit /\ [][ClipNext]_vars

\* the track is drawn, its keys are selected, copied and pasted, MaxPasteSteps
\* steps long
PasteNext ==
    /\ ops < MaxPasteSteps
    /\ ops' = ops + 1
    /\ \/ draw /\ UNCHANGED cmdVars
       \/ selectAllKeys
       \/ storeSelectedKeysInClipboard
       \/ pasteKeys
    /\ UNCHANGED <<threePhase, otherTrack, tangentTrip, hostVars>>

PasteSpec == ClipInit /\ [][PasteNext]_vars

\* a track whose TX curve has any keys among KeyTimes and whose other curves
\* have none
BoundaryInit ==
    /\ CacheInit
    /\ ~ openmp
    /\ showRotationKeyFrames = TRUE
    /\ \E tx \in SUBSET KeyTimes :
          TrackInit({<<"TX", t>> : t \in tx})
    /\ ToolInit
    /\ motionPathDrawMode = "world"
    /\ tangentTrip = NoTrip
    /\ HostInit
    /\ CmdInit

\* the curves of the track are asked about times
BoundaryNext ==
    /\ ClassifyKey
    /\ UNCHANGED <<ops, threePhase, otherTrack, tangentTrip, hostVars>>

BoundarySpec == BoundaryInit /\ [][BoundaryNext]_vars

\* a track keyed on its three translation axes at the same frames of the
\* display window
EditInit ==
    /\ CacheInit
    /\ ~ openmp
    /\ showRotationKeyFrames = TRUE
    /\ \E keyed \in (SUBSET (1 .. MaxTime)) \ {{}} :
          TrackInit(TranslateCurves \X keyed)
    /\ ToolInit
    /\ motionPathDrawMode = "world"
    /\ tangentTrip = NoTrip
    /\ HostInit
    /\ CmdInit

\* the track is drawn and clicked with the edit tool, Caps Lock off
EditNext ==
    /\ \/ draw /\ UNCHANGED cmdVars
       \/ EditDoPressCommon
       \/ EditDoReleaseCommon
    /\ UNCHANGED <<ops, threePhase, otherTrack, tangentTrip, hostVars>>

EditSpec == EditInit /\ [][EditNext]_vars

\* a track keyed on the three translation axes at the frames 1..MaxPoints+1,
\* all of them displayed, and the draw tool just set up
StrokeInit ==
    /\ CacheInit
    /\ ~ openmp
    /\ showRotationKeyFrames = TRUE
    /\ curves = [c \in CurveNames |->
                    IF c \in TranslateCurves THEN 1 .. (MaxPoints + 1) ELSE {}]
    /\ displayStartTime = 1
    /\ displayEndTime = MaxPoints + 1
    /\ isDrawing = FALSE
    /\ endDrawingTime = 0
    /\ selectedKeyTimes = {}
    /\ keyframesCache = <<>>
    /\ currentMode = "none"
    /\ drawn = "none"
    /\ ToolInit
    /\ motionPathDrawMode = "world"
    /\ tangentTrip = NoTrip
    /\ HostInit
    /\ CmdInit

StrokeNext ==
    /\ \/ draw
       \/ doPressCommon
       \/ doDrag
       \/ doReleaseCommon
    /\ UNCHANGED <<ops, threePhase, otherTrack, tangentTrip, hostVars, cmdVars>>
    /\ walk.terminates

StrokeSpec == StrokeInit /\ [][StrokeNext]_vars

\* a track with a single key, or one keyed on the three translation axes at the
\* frames 1..GestureKeys and on one rotation axis at the frame 2; shown in
\* world space or in camera space
GestureInit ==
    /\ CacheInit
    /\ ~ openmp
    /\ showRotationKeyFrames = TRUE
    /\ \E last \in {1, GestureKeys} :
          curves = [c \in CurveNames |->
                       IF c \in TranslateCurves THEN 1 .. last
                       ELSE IF c = "RX" THEN {2} \cap (1 .. last)
                       ELSE {}]
    /\ displayStartTime = 1
    /\ displayEndTime = GestureKeys
    /\ isDrawing = FALSE
    /\ endDrawingTime = 0
    /\ selectedKeyTimes = {}
    /\ keyframesCache = <<>>
    /\ currentMode = "none"
    /\ drawn = "none"
    /\ ToolInit
    /\ motionPathDrawMode \in {"world", "camera"}
    /\ tangentTrip = NoTrip
    /\ HostInit
    /\ CmdInit

\* the gestures of the draw tool on such a track, MaxGestureSteps steps long
GestureNext ==
    /\ ops < MaxGestureSteps
    /\ ops' = ops + 1
    /\ walk.terminates
    /\ UNCHANGED <<threePhase, otherTrack, tangentTrip, hostVars, cmdVars>>
    /\ \/ draw
       \/ doPressCommon
       \/ doDrag
       \/ doReleaseCommon

GestureSpec == GestureInit /\ [][GestureNext]_vars

\* the draw tool on the longer track, draw gestures included, MaxDrawSteps
\* steps long
DrawInit ==
    /\ CacheInit
    /\ ~ openmp
    /\ showRotationKeyFrames = TRUE
    /\ curves = [c \in CurveNames |->
                    IF c \in TranslateCurves THEN 1 .. GestureKeys
                    ELSE IF c = "RX" THEN {2}
                    ELSE {}]
    /\ displayStartTime = 1
    /\ displayEndTime = GestureKeys
    /\ isDrawing = FALSE
    /\ endDrawingTime = 0
    /\ selectedKeyTimes = {}
    /\ keyframesCache = <<>>
    /\ currentMode = "none"
    /\ drawn = "none"
    /\ ToolInit
    /\ motionPathDrawMode \in {"world", "camera"}
    /\ tangentTrip = NoTrip
    /\ HostInit
    /\ CmdInit

DrawNext ==
    /\ ops < MaxDrawSteps
    /\ ops' = ops + 1
    /\ walk.terminates
    /\ UNCHANGED <<threePhase, otherTrack, tangentTrip, hostVars>>
    /\ \/ draw /\ UNCHANGED cmdVars
       \/ doPressCommon /\ UNCHANGED cmdVars
       \/ doDragCommon
       \/ doReleaseCommon /\ UNCHANGED cmdVars
       \/ doReleaseCommonDraw /\ UNCHANGED undoCalls

DrawSpec == DrawInit /\ [][DrawNext]_vars

\* the gestures of the draw tool on the longer track with their calls on the
\* undo recorder, MaxGestureSteps steps long
UndoNext ==
    /\ ops < MaxGestureSteps
    /\ ops' = ops + 1
    /\ walk.terminates
    /\ UNCHANGED <<threePhase, otherTrack, tangentTrip, hostVars>>
    /\ \/ draw /\ UNCHANGED cmdVars
       \/ doPressCommonOnKey
       \/ doPressCommonClickAdd
       \/ doDrag /\ UNCHANGED cmdVars
       \/ doReleaseCommonStroke
       \/ doReleaseCommonDrawn
       \/ doReleaseCommonClickAdd

UndoSpec == DrawInit /\ [][UndoNext]_vars

\* a track of an object without keys, interactive locked mode on or off, no
\* button held
LockedInit ==
    /\ CacheInit
    /\ showRotationKeyFrames = TRUE
    /\ TrackInit({})
    /\ ToolInit
    /\ motionPathDrawMode = "world"
    /\ tangentTrip = NoTrip
    /\ HostInit
    /\ classified = NotClassified
    /\ copied = NoCopy
    /\ editTool = EditToolSetup
    /\ drawRelease = NoDrawRelease
    /\ undoCalls = NoUndoCalls
    /\ \E on \in BOOLEAN : locked = [NotLocked EXCEPT !.lockedModeInteractive = on]

\* notifications, mouse buttons and draws, MaxLockedSteps steps long
LockedNext ==
    /\ ops < MaxLockedSteps
    /\ ops' = ops + 1
    /\ UNCHANGED <<threePhase, otherTrack, tangentTrip, hostVars>>
    /\ \/ worldMatrixChangedCallback
       \/ MouseButton
       \/ drawRefresh
       \/ drawBody

LockedSpec == LockedInit /\ [][LockedNext]_vars

----------------------------------------------------------------------------
\* Properties of the parent matrix cache

\* the step is a cacheRange call (a scene edit leaves call as it was)
IsCacheRangeStep == call'.op = "cacheRange" /\ scene' = scene

\* C1: after cacheRange(start, end) with start <= end the cache holds an entry
\* for every frame start, start+1, ..., end.
C1_RangeFullyCached ==
    (call.op = "cacheRange" /\ call.start <= call.end)
        => \A t \in call.start .. call.end : Tick(t) \in DOMAIN pMatrixCache

\* C1 failing input: a request lying before the cached range extended the range
\* over frames that have no entry
C1_HoleInRange ==
    /\ call.op = "cacheRange" /\ call.start <= call.end
    /\ \E t \in call.start .. call.end : Tick(t) \notin DOMAIN pMatrixCache

C2_SequentialStable ==
    [][(call'.op \in {"ensure", "cacheRange"} /\ call'.path # "threePhase")
         => \A t \in DOMAIN pMatrixCache :
                t \in DOMAIN pMatrixCache' /\ pMatrixCache'[t] = pMatrixCache[t]]_vars

\* C3: across cacheRange calls with no clear in between cachedStart never
\* increases and cachedEnd never decreases.
C3_RangeMonotone ==
    [][(call.ranged /\ IsCacheRangeStep)
         => /\ cachedRangeStart' <= cachedRangeStart
            /\ cachedRangeEnd' >= cachedRangeEnd]_vars

\* C4 as stated: on a valid, non-empty cache cacheRange(start, end) evaluates
\* only frames of [start, end] that have no entry: none when the cached range
\* covers the request, otherwise one per missing leading or trailing frame,
\* and the range afterwards is the smallest one containing the old range and
\* the request.
C4_EvaluatesOnlyRequested ==
    [][(IsCacheRangeStep /\ pMatrixCacheValid /\ DOMAIN pMatrixCache # {})
         => LET s == call'.start
                e == call'.end
                missing == {Tick(t) : t \in {u \in s .. e :
                               /\ Tick(u) \notin DOMAIN pMatrixCache
                               /\ (u < cachedRangeStart \/ u > cachedRangeEnd)}}
            IN IF cachedRangeStart <= s /\ cachedRangeEnd >= e
               THEN call'.evals = <<>> /\ pMatrixCache' = pMatrixCache
               ELSE /\ Range(call'.evals) = missing
                    /\ Len(call'.evals) = Cardinality(missing)
                    /\ cachedRangeStart' = (IF s <= e THEN Min(cachedRangeStart, s)
                                            ELSE cachedRangeStart)
                    /\ cachedRangeEnd' = (IF s <= e THEN Max(cachedRangeEnd, e)
                                          ELSE cachedRangeEnd)]_vars

\* C4 amended: on a valid, non-empty cache cacheRange(start, end) evaluates
\* nothing and changes nothing when the cached range covers the request;
\* otherwise it evaluates once every frame without an entry among
\* start..min(end, cachedStart-1) and cachedEnd+1..end and nothing else, keeps
\* the entries it found, and leaves cachedStart = min(cachedStart, start) and
\* cachedEnd = max(cachedEnd, end).
C4_EvaluatesLeadingAndTrailing ==
    [][(IsCacheRangeStep /\ pMatrixCacheValid /\ DOMAIN pMatrixCache # {})
         => LET s == call'.start
                e == call'.end
                visited == (s .. Min(e, cachedRangeStart - 1))
                              \cup ((cachedRangeEnd + 1) .. e)
                missing == {Tick(t) : t \in visited} \ DOMAIN pMatrixCache
            IN IF cachedRangeStart <= s /\ cachedRangeEnd >= e
               THEN /\ call'.evals = <<>>
                    /\ UNCHANGED <<pMatrixCache, cachedRangeStart, cachedRangeEnd,
                                   pMatrixCacheValid>>
               ELSE /\ Range(call'.evals) = missing
                    /\ Len(call'.evals) = Cardinality(missing)
                    /\ DOMAIN pMatrixCache' = DOMAIN pMatrixCache \cup missing
                    /\ \A t \in DOMAIN pMatrixCache : pMatrixCache'[t] = pMatrixCache[t]
                    /\ cachedRangeStart' = Min(cachedRangeStart, s)
                    /\ cachedRangeEnd' = Max(cachedRangeEnd, e)
                    /\ pMatrixCacheValid']_vars

\* C4 witness: an incremental call whose request starts beyond cachedEnd has
\* evaluated a frame in front of the request
C4_TrailingGapFilled ==
    /\ call.op = "cacheRange" /\ call.path = "incremental"
    /\ call.start <= call.end
    /\ \E i \in 1 .. Len(call.evals) : call.evals[i] < Tick(call.start)

----------------------------------------------------------------------------
\* Properties of the keyframe cache

\* boundaryEnd: the end marker of the live draw in draw mode, else displayEnd
BoundaryEnd == IF isDrawing THEN endDrawingTime ELSE displayEndTime

\* the key id a record holds for a curve
KeyIdOf(key, c) ==
    CASE c = "TX" -> key.xKeyId
      [] c = "TY" -> key.yKeyId
      [] c = "TZ" -> key.zKeyId
      [] c = "RX" -> key.xRotKeyId
      [] c = "RY" -> key.yRotKeyId
      [] c = "RZ" -> key.zRotKeyId

NoTranslationKeys == \A c \in TranslateCurves : curves[c] = {}

\* the record at time t is the record of the key of rotation curve c there
\* and of no translation key
IsRotationRecord(c, t) ==
    /\ t \in DOMAIN keyframesCache
    /\ keyframesCache[t].time = t
    /\ KeyIdOf(keyframesCache[t], c) = KeyIndex(curves[c], t)
    /\ \A a \in TranslateCurves : KeyIdOf(keyframesCache[t], a) = -1

\* C5 as stated: for an object with a rotation key at a time t inside the
\* display window and no translation key anywhere, the rebuilt cache has a
\* record at t with that rotation key id set and the translation ids -1.
C5_RotationKeyInWindowHasRecord ==
    (drawn = "rebuilt" /\ NoTranslationKeys)
        => \A c \in RotateCurves : \A t \in curves[c] :
               (displayStartTime <= t /\ t <= displayEndTime)
                   => IsRotationRecord(c, t)

\* C5 amended: with rotation keyframes switched on, for an object with a
\* rotation key at a time t with displayStart <= t <= boundaryEnd and no
\* translation key anywhere, the rebuilt cache has a record at t with that
\* rotation key id set and the translation ids -1.
C5_ShownRotationKeyHasRecord ==
    (drawn = "rebuilt" /\ NoTranslationKeys /\ showRotationKeyFrames)
        => \A c \in RotateCurves : \A t \in curves[c] :
               (displayStartTime <= t /\ t <= BoundaryEnd)
                   => IsRotationRecord(c, t)

\* C5 witness: a rebuild has made the record of a rotation key of an object
\* without translation keys
C5_RotationOnlyRecordBuilt ==
    /\ drawn = "rebuilt" /\ NoTranslationKeys /\ showRotationKeyFrames
    /\ \E c \in RotateCurves : \E t \in curves[c] :
          /\ displayStartTime <= t /\ t <= BoundaryEnd
          /\ IsRotationRecord(c, t)

\* C6: after a rebuild every record is the record of a real key: one of its
\* six key ids is not -1, an id that is not -1 is the index of the key its
\* curve has at the record's time, and a curve without a key there has id -1.
C6_RecordsAreRealKeys ==
    drawn = "rebuilt"
        => \A k \in DOMAIN keyframesCache :
               LET key == keyframesCache[k]
               IN /\ \E c \in CurveNames : KeyIdOf(key, c) # -1
                  /\ \A c \in CurveNames :
                        IF key.time \in curves[c]
                        THEN KeyIdOf(key, c) \in {-1, KeyIndex(curves[c], key.time)}
                        ELSE KeyIdOf(key, c) = -1

\* a translation curve has its last key at k, past the draw end marker
LastKeyPastDrawEnd(k) ==
    /\ isDrawing /\ k > endDrawingTime
    /\ \E c \in TranslateCurves : k \in curves[c] /\ \A u \in curves[c] : u <= k

\* C6 failing state: in draw mode the rebuilt cache holds, where a
\* translation curve has its last key past the draw end marker, a record
\* with no key id
C6_RecordWithoutKeyInDrawMode ==
    /\ drawn = "rebuilt"
    /\ \E k \in DOMAIN keyframesCache :
          /\ LastKeyPastDrawEnd(k)
          /\ \A c \in CurveNames : KeyIdOf(keyframesCache[k], c) = -1

\* C7: after a rebuild every record's time t has
\* displayStart <= t <= boundaryEnd.
C7_RecordsInsideBoundary ==
    drawn = "rebuilt"
        => \A k \in DOMAIN keyframesCache :
               /\ displayStartTime <= keyframesCache[k].time
               /\ keyframesCache[k].time <= BoundaryEnd

\* C7 failing state: in draw mode a record is stored where a translation
\* curve has its last key past the draw end marker, and the time it carries
\* lies before the display window
C7_RecordOutsideBoundaryInDrawMode ==
    /\ drawn = "rebuilt"
    /\ \E k \in DOMAIN keyframesCache :
          /\ LastKeyPastDrawEnd(k)
          /\ keyframesCache[k].time < displayStartTime

\* C8: after a rebuild reached through draw the n records carry the ids
\* 0..n-1, each once, in strictly ascending time order, and a record is
\* flagged selected exactly when its time is in the selected-time set.
C8_IdsFollowTimeOrder ==
    drawn = "rebuilt"
        => LET keys == DOMAIN keyframesCache
           IN /\ {keyframesCache[k].id : k \in keys} = 0 .. (Cardinality(keys) - 1)
              /\ \A a, b \in keys :
                    keyframesCache[a].id < keyframesCache[b].id
                        => keyframesCache[a].time < keyframesCache[b].time
              /\ \A k \in keys :
                    keyframesCache[k].selectedFromTool
                        <=> keyframesCache[k].time \in selectedKeyTimes

\* C8 failing state: in draw mode the record stored where a translation
\* curve has its last key past the draw end marker has the larger id and
\* carries the smaller time
C8_LaterIdEarlierTimeInDrawMode ==
    /\ drawn = "rebuilt"
    /\ \E a, b \in DOMAIN keyframesCache :
          /\ LastKeyPastDrawEnd(b)
          /\ keyframesCache[a].id < keyframesCache[b].id
          /\ keyframesCache[a].time > keyframesCache[b].time

----------------------------------------------------------------------------
\* Properties of the stroke fitter


\* squared distance from the whole point q to the rational point r
PointDist2(q, r) ==
    Ratio((r.x - q.x * r.d) * (r.x - q.x * r.d)
              + (r.y - q.y * r.d) * (r.y - q.y * r.d),
          r.d * r.d)

\* squared distance from q to the segment a -> b: to the nearer end when the
\* foot of the perpendicular falls outside it, else to the foot
SegmentDist2(a, b, q) ==
    LET ab == Sub(b, a)
        aq == Sub(q, a)
        bq == Sub(q, b)
        len2 == Dot(ab, ab)
        along == Dot(ab, aq)
    IN IF along <= 0 THEN [n |-> Dot(aq, aq), d |-> 1]
       ELSE IF along >= len2 THEN [n |-> Dot(bq, bq), d |-> 1]
       ELSE Ratio(Dot(aq, aq) * len2 - along * along, len2)

\* res.point is the first sample, or lies between two consecutive samples
OnPolyLine(points, res) ==
    \/ SamePoint(res.point, Exact(points[1]))
    \/ /\ res.index \in 1 .. (Len(points) - 1)
       /\ res.td > 0
       /\ 0 <= res.tn
       /\ res.tn <= res.td
       /\ SamePoint(res.point,
                    Interp(points[res.index], points[res.index + 1],
                           res.tn, res.td))

\* nothing of the polyline is strictly closer to q than res.point
NothingCloser(points, q, res) ==
    /\ RatioLeq(PointDist2(q, res.point),
                [n |-> Dot(Sub(q, points[1]), Sub(q, points[1])), d |-> 1])
    /\ \A j \in 1 .. (Len(points) - 1) :
          RatioLeq(PointDist2(q, res.point),
                   SegmentDist2(points[j], points[j + 1], q))

IsNearest(points, q, res) ==
    OnPolyLine(points, res) /\ NothingCloser(points, q, res)

\* the query points the closest-point function is asked about
QueryPoints == {KeyScreen(j) : j \in 1 .. (2 * MaxPoints)}

\* C9: for every query point and every stroke with at least one sample, the
\* closest-point function of the draw tool and that of the edit tool return a
\* point of the polyline (the first sample, or a point between two consecutive
\* samples at a parameter in [0, 1]) than which no point of any segment is
\* strictly closer to the query; the positions a closest-mode release stored
\* are such points for the candidates' original positions.
C9_ClosestPointIsNearest ==
    Len(strokePoints) >= 1 =>
        /\ \A q \in QueryPoints :
              /\ IsNearest(strokePoints, q,
                           getClosestPointOnPolyLine(q, strokePoints))
              /\ IsNearest(strokePoints, q,
                           getClosestPointOnPolyLineEdit(q, strokePoints))
        /\ fitMode = 0 =>
              \A n \in 1 .. Len(strokeCache) :
                  LET res == getClosestPointOnPolyLine(
                                 strokeCache[n].originalScreenPosition,
                                 strokePoints)
                  IN /\ SamePoint(strokeCache[n].screenPosition, res.point)
                     /\ IsNearest(strokePoints,
                                  strokeCache[n].originalScreenPosition, res)

\* C9 witness: a closest-mode release has moved one candidate to the inside of
\* a segment after the first, another to a sample where two segments meet, and
\* a third one's nearest point is the first sample
C9_InteriorAndCornerFitted ==
    /\ fitMode = 0
    /\ currentMode = "none"
    /\ \E n \in 1 .. Len(strokeCache) :
          LET res == getClosestPointOnPolyLine(
                         strokeCache[n].originalScreenPosition, strokePoints)
          IN res.index >= 2 /\ 0 < res.tn /\ res.tn < res.td
    /\ \E n \in 1 .. Len(strokeCache) :
          LET res == getClosestPointOnPolyLine(
                         strokeCache[n].originalScreenPosition, strokePoints)
          IN res.index >= 1 /\ res.index < Len(strokePoints) - 1
                /\ res.tn = res.td
    /\ \E n \in 1 .. Len(strokeCache) :
          getClosestPointOnPolyLine(
              strokeCache[n].originalScreenPosition, strokePoints).index = 0

\* the point of the polyline at arc length sn/sd from the first sample
ArcPoint(points, sn, sd) ==
    LET lengths == [j \in 1 .. (Len(points) - 1) |->
                       Length(points[j], points[j + 1])]
        j == CHOOSE k \in 1 .. Len(lengths) :
                 /\ sn <= SumTo(lengths, k) * sd
                 /\ \A m \in 1 .. (k - 1) : sn > SumTo(lengths, m) * sd
    IN Interp(points[j], points[j + 1],
              sn - SumTo(lengths, j - 1) * sd, sd * lengths[j])

\* length of the whole polyline, first sample to last
TotalLength(points) ==
    SumTo([j \in 1 .. (Len(points) - 1) |-> Length(points[j], points[j + 1])],
          Len(points) - 1)

\* C10: after a spread-mode release with pointSize candidates, item i
\* (0 <= i < pointSize) is at the point of the polyline whose arc length from
\* the first sample is ((i+1)/pointSize) x the length of the whole polyline;
\* on a straight horizontal stroke the X values are the quarters of its length
\* for pointSize = 4.
C10_SpreadAtArcFractions ==
    fitMode = 1 =>
        \A n \in 1 .. Len(strokeCache) :
            SamePoint(strokeCache[n].screenPosition,
                      ArcPoint(strokePoints,
                               n * TotalLength(strokePoints),
                               Len(strokeCache)))

\* C10 witness: the straight horizontal stroke (0,0), (9,0), (18,0) spread
\* over four candidates puts them at X = 9/4, 9/2, 27/4 and 18: the fractions
\* are taken of the first segment's length alone
C10_SpreadOverHalfTheStroke ==
    /\ fitMode = 1
    /\ strokePoints = <<Vec(0, 0), Vec(9, 0), Vec(18, 0)>>
    /\ Len(strokeCache) = 4
    /\ SamePoint(strokeCache[1].screenPosition, RPoint(9, 0, 4))
    /\ SamePoint(strokeCache[2].screenPosition, RPoint(9, 0, 2))
    /\ SamePoint(strokeCache[3].screenPosition, RPoint(27, 0, 4))
    /\ SamePoint(strokeCache[4].screenPosition, RPoint(18, 0, 1))

\* the arc lengths, from the first sample, at which the polyline passes
\* through the rational point r (none when r is off the polyline)
ArcPositions(points, r) ==
    LET lengths == [j \in 1 .. (Len(points) - 1) |->
                       Length(points[j], points[j + 1])]
        Along(j) == (points[j + 1].x - points[j].x) * (r.x - points[j].x * r.d)
                    + (points[j + 1].y - points[j].y) * (r.y - points[j].y * r.d)
        Cross(j) == (points[j + 1].x - points[j].x) * (r.y - points[j].y * r.d)
                    - (points[j + 1].y - points[j].y) * (r.x - points[j].x * r.d)
        on == {j \in 1 .. (Len(points) - 1) :
                  /\ Cross(j) = 0
                  /\ 0 <= Along(j)
                  /\ Along(j) <= lengths[j] * lengths[j] * r.d}
    IN {Ratio(SumTo(lengths, j - 1) * r.d * lengths[j] + Along(j),
              r.d * lengths[j]) : j \in on}

\* the positions seq[n], seq[n+1], ... can be given arc lengths that rise
\* strictly, the first of them above floor
RECURSIVE RisesFrom(_, _, _, _)
RisesFrom(points, seq, n, floor) ==
    IF n > Len(seq) THEN TRUE
    ELSE LET above == {s \in ArcPositions(points, seq[n]) :
                           ~ RatioLeq(s, floor)}
         IN /\ above # {}
            /\ RisesFrom(points, seq, n + 1,
                         CHOOSE s \in above : \A u \in above : RatioLeq(s, u))

StrictlyAlongStroke(points, seq) ==
    RisesFrom(points, seq, 1, [n |-> -1, d |-> 1])

\* the positions the edit tool's spread gives for the stroke and pointSize of
\* the last release
SpreadEdit ==
    LET segmentLenghts == segmentLenghtsOf(strokePoints)
        strokeLenght == SumTo(segmentLenghts, Len(segmentLenghts))
    IN [n \in 1 .. Len(strokeCache) |->
           getSpreadPointOnPolyLineEdit(n - 1, Len(strokeCache), strokeLenght,
                                        segmentLenghts)]

\* C11: the positions a spread-mode release gives the items 0..pointSize-1 are
\* strictly increasing in arc length along the polyline, with the draw tool's
\* spread function and with the edit tool's, also when a target arc length
\* falls exactly on a sample of the stroke.
C11_SpreadStrictlyIncreasing ==
    fitMode = 1 =>
        /\ StrictlyAlongStroke(strokePoints,
                               [n \in 1 .. Len(strokeCache) |->
                                   strokeCache[n].screenPosition])
        /\ StrictlyAlongStroke(strokePoints, SpreadEdit)

\* C11 witness: a spread-mode release whose second target falls exactly on the
\* second sample of the stroke (0,0), (9,0), (18,0), (9,12): the draw tool puts
\* that item at (-9, 0), off the polyline, and the edit tool puts it on the
\* third sample (18, 0), beyond the item after it
C11_TargetOnSampleMisplaced ==
    /\ fitMode = 1
    /\ strokePoints = <<Vec(0, 0), Vec(9, 0), Vec(18, 0), Vec(9, 12)>>
    /\ Len(strokeCache) = 4
    /\ SamePoint(strokeCache[2].screenPosition, RPoint(-9, 0, 1))
    /\ SamePoint(SpreadEdit[2], RPoint(18, 0, 1))
    /\ SamePoint(SpreadEdit[3], RPoint(27, 0, 2))

----------------------------------------------------------------------------
\* Properties of the release of a stroke gesture

\* the step is a release of a stroke gesture: only a release changes the walk
\* record or ends the gesture
IsStrokeRelease ==
    /\ currentMode = "stroke"
    /\ walk' # walk \/ currentMode' = "none"

\* C12: a release of a stroke gesture leaves every one of the six axis curves
\* with a key at each time at which it had a key before: what the
\* redistribution removes from a curve it inserts on that curve again
C12_RemovedKeysReinserted ==
    [][IsStrokeRelease =>
           \A c \in CurveNames : curves[c] \subseteq curves'[c]]_vars

\* a release that returned after removing and adding the key at the frame 2
\* has left the rotation curve without the key it had there
C12_RotationKeyLost ==
    /\ walk.returned
    /\ 2 \in walk.removed
    /\ 2 \in walk.added
    /\ 2 \in curves["TX"]
    /\ curves["RX"] = {}

\* C13: the curve edits of a release are all or nothing: either no curve is
\* changed, or every candidate of the walk has been removed and added again,
\* also when the camera-space conversion fails for one of them
C13_EditsAllOrNothing ==
    [][IsStrokeRelease =>
           \/ curves' = curves
           \/ /\ walk'.removed = {getKeys[walk'.cache[n] + 1] :
                                      n \in 1 .. Len(walk'.cache)}
              /\ walk'.added = walk'.removed]_vars

\* a release in camera space has removed two candidates and, the conversion
\* failing for the second, added only the first again
C13_HalfApplied ==
    /\ motionPathDrawMode = "camera"
    /\ ~ walk.returned
    /\ walk.removed = {2, 3}
    /\ walk.added = {2}
    /\ curves["TX"] = {1, 2}

\* C14: after a release that arrives while the tool holds a track the tool is
\* idle: no track held, gesture mode none, the drawing flag and the
\* tool-selection flag of the track cleared, and no stroke sample left
C14_IdleAfterRelease ==
    [][IsStrokeRelease =>
           /\ ~ selectedMotionPathPtr'
           /\ currentMode' = "none"
           /\ ~ isDrawing'
           /\ ~ selectedFromTool'
           /\ strokePoints' = <<>>]_vars

\* a release has run to its end and let the track go, and the three samples of
\* its stroke are still there
C14_SamplesKept ==
    /\ walk.layout # "none"
    /\ walk.returned
    /\ ~ selectedMotionPathPtr
    /\ currentMode = "none"
    /\ Len(strokePoints) = 3

\* C15: when neither the previous nor the next key lies in the direction of
\* the stroke (both dot products <= 0) the direction is none, the walk selects
\* no candidate and the release edits no curve
C15_NoDirectionNoEdit ==
    (walk.layout # "none" /\ walk.dot1 <= 0 /\ walk.dot2 <= 0) =>
        /\ walk.direction = 0
        /\ walk.cache = <<>>
        /\ walk.removed = {}
        /\ walk.added = {}

\* both neighbours of the grabbed key lie behind the stroke, and the release
\* walked forward and removed and added keys
C15_BothBehindYetEdited ==
    /\ walk.layout = "behind"
    /\ walk.dot1 < 0
    /\ walk.dot2 < 0
    /\ walk.direction = 1
    /\ walk.returned
    /\ walk.removed # {}
    /\ walk.added = walk.removed

\* C16: for every key list, grabbed key and stroke the candidate walk of a
\* release ends, and every key index read by the direction test and by the
\* walk lies in 0 .. number of keys - 1 (so the walk goes no further than the
\* first or last key)
C16_WalkStaysInKeys ==
    walk.layout # "none" =>
        /\ walk.terminates
        /\ \A i \in walk.reads : 0 <= i /\ i < walk.numKeys

\* the only key of a track was grabbed, and the walk read the index 1
C16_ReadPastOnlyKey ==
    /\ walk.numKeys = 1
    /\ walk.selectedIndex = 0
    /\ walk.direction = 1
    /\ 1 \in walk.reads

----------------------------------------------------------------------------
\* Properties of the three-phase rebuild

\* some thread has composed a frame
ComposeStarted == \E i \in DOMAIN threePhase.slotWriters : threePhase.slotWriters[i] # {}
\* the thread whose chunk holds the frame index i
ChunkOwner(i) ==
    CHOOSE t \in Threads :
        ChunkStart(t, threePhase.numFrames) <= i /\ i < ChunkEnd(t, threePhase.numFrames)

\* C17: in a three-phase rebuild every call of the scene accessors is made in
\* the gather phase by the owning thread, and all of them are made before a
\* worker starts; the workers leave the cache map as the rebuild found it;
\* every output slot is written by the one worker whose chunk holds its index;
\* the writeback starts only when every worker has finished; and the rebuild
\* ends with the entries the scene gives for its frames
C17_GatherComposeWriteback ==
    /\ \A c \in threePhase.apiCalls : c.thread = Owner /\ c.phase = "gather"
    /\ ComposeStarted =>
           {c.idx : c \in threePhase.apiCalls} = 0 .. (threePhase.numFrames - 1)
    /\ threePhase.phase \in {"gather", "compose"} => pMatrixCache = threePhase.before
    /\ \A i \in DOMAIN threePhase.slotWriters :
           threePhase.slotWriters[i] \subseteq {ChunkOwner(i)}
    /\ threePhase.phase = "writeback" =>
           \A i \in DOMAIN threePhase.slotWriters : threePhase.slotWriters[i] # {}
    /\ (threePhase.phase = "idle" /\ call.path = "threePhase") =>
           \A i \in 0 .. (threePhase.numFrames - 1) :
               LET t == Tick(threePhase.startFrame + i)
               IN t \in DOMAIN pMatrixCache /\ pMatrixCache[t] = Mat(t, scene)

\* both threads are in the middle of their chunks at once
C17_WorkersInterleaved ==
    /\ threePhase.phase = "compose"
    /\ \A t \in {0, 1} :
           /\ threePhase.next[t] > ChunkStart(t, threePhase.numFrames)
           /\ threePhase.next[t] < ChunkEnd(t, threePhase.numFrames)

----------------------------------------------------------------------------
\* Properties of clear() and ensureAtTime on one of several tracks

\* the step is a call on the track the step before was on
OnSameTrack == otherTrack'.id = otherTrack.id
\* the paths of cacheParentMatrixRange that are a full rebuild
FullRebuildPaths == {"sequential", "threePhase"}

\* C18: clear() on a track removes every entry of its parent matrix cache and
\* sets its validity flag to false, and changes nothing of the other track's
\* cache; the first cacheRange on the track after it is a full rebuild
C18_ClearDropsOwnCache ==
    [][/\ (OnSameTrack /\ call'.op = "clear" /\ call.op # "clear") =>
              /\ pMatrixCache' = <<>>
              /\ ~ pMatrixCacheValid'
              /\ otherTrack' = otherTrack
       /\ (OnSameTrack /\ call'.op = "cacheRange" /\ ~ call.ranged) =>
              call'.path \in FullRebuildPaths]_vars

\* a track that had a range cached has been cleared, and the other track's
\* cache is valid and has its entries
C18_ClearedBesideValidTrack ==
    /\ call.op = "clear"
    /\ pMatrixCache = <<>>
    /\ cachedRangeEnd > cachedRangeStart
    /\ otherTrack.pMatrixCacheValid
    /\ otherTrack.pMatrixCache # <<>>

\* the step is ensureAtTime(t) for a frame t outside the cached range, or on a
\* cache that is not valid
IsFallbackEnsure ==
    /\ call'.op = "ensure"
    /\ scene' = scene
    /\ \/ ~ pMatrixCacheValid
       \/ call'.start < cachedRangeStart
       \/ call'.start > cachedRangeEnd

\* ensureAtTime leaves the range, the flag and every entry it found
EnsureKeepsTheRest ==
    /\ cachedRangeStart' = cachedRangeStart
    /\ cachedRangeEnd' = cachedRangeEnd
    /\ pMatrixCacheValid' = pMatrixCacheValid
    /\ \A u \in DOMAIN pMatrixCache :
           u \in DOMAIN pMatrixCache' /\ pMatrixCache'[u] = pMatrixCache[u]

\* the entry for the frame of the call is evaluated once and is the only
\* entry added
EnsureInsertsOne ==
    LET t == Tick(call'.start)
    IN /\ call'.evals = <<t>>
       /\ DOMAIN pMatrixCache' = (DOMAIN pMatrixCache) \cup {t}
       /\ pMatrixCache'[t] = Mat(t, scene)

\* C19 as stated: ensureAtTime(t) for t outside the cached range, or on an
\* invalid cache, evaluates and inserts the one entry for t and leaves the
\* range, the validity flag and every other entry unchanged
C19_FallbackInsertsOne ==
    [][IsFallbackEnsure => EnsureInsertsOne /\ EnsureKeepsTheRest]_vars

\* C19 amended: such a call inserts the entry for t, evaluated once, when the
\* cache has none for t; when it has one the call evaluates nothing and leaves
\* the cache as it is.  Either way the range, the validity flag and every
\* other entry are unchanged.
C19_FallbackInsertsIfAbsent ==
    [][IsFallbackEnsure =>
           /\ IF Tick(call'.start) \in DOMAIN pMatrixCache
              THEN call'.evals = <<>> /\ pMatrixCache' = pMatrixCache
              ELSE EnsureInsertsOne
           /\ EnsureKeepsTheRest]_vars

\* ensureAtTime found an entry for a frame beyond the end of the valid range
C19_HitOutsideRange ==
    /\ call.op = "ensure"
    /\ call.path = "hit"
    /\ pMatrixCacheValid
    /\ call.start > cachedRangeEnd
    /\ Tick(call.start) \in DOMAIN pMatrixCache

----------------------------------------------------------------------------
\* The tangent of a key on a non-weighted curve: read as a local value, and
\* written back.  An angle strictly between -90 and 90 degrees is held as its
\* tangent, an exact fraction, so that tan and atan lose nothing: two angles
\* are equal exactly when their tangents are.

Slopes == {Ratio(n, d) : n \in (0 - MaxSlope) .. MaxSlope, d \in 1 .. 2}
Weights == {Ratio(n, d) : n \in 1 .. MaxWeight, d \in 1 .. 2}

\* cacheKeyFrames: the handle of an in-tangent lies at position -
\* inTangent, that of an out-tangent at position + outTangent
HandleOffset(tangentVal, isIn) ==
    IF isIn THEN RatioMinus(tangentVal) ELSE tangentVal

\* MotionPath::setTangentValue and KeyCopy::setTangent on a non-weighted
\* curve: MAngle newAngle(atan(value * w))
AngleOfValue(value, w) == RatioTimes(value, w)

\* Keyframe::setTangent reads the tangent of the key (getTangent succeeds)
ReadTangent ==
    /\ ~ isWeighted
    /\ tangentTrip.stage = "key"
    /\ tangentTrip' =
          [tangentTrip EXCEPT
              !.stage = "read",
              !.tangentVal = TangentValueOf(tangentTrip.angle, tangentTrip.weight)]

\* MotionPath::setTangentValue writes the handle back where it was read: the
\* value of an in-tangent is negated, the weight w is the one the curve has
WriteTangent ==
    /\ ~ isWeighted
    /\ tangentTrip.stage = "read"
    /\ LET handle == HandleOffset(tangentTrip.tangentVal, tangentTrip.isIn)
           value == IF tangentTrip.isIn THEN RatioMinus(handle) ELSE handle
           w == tangentTrip.weight
       IN tangentTrip' = [tangentTrip EXCEPT !.stage = "written",
                                             !.writer = "setTangentValue",
                                             !.angle = AngleOfValue(value, w),
                                             !.weight = w]

\* KeyCopy::setTangent pastes the value and the weight that were copied
PasteTangent ==
    /\ ~ isWeighted
    /\ tangentTrip.stage = "read"
    /\ LET weight == tangentTrip.weight
       IN tangentTrip' = [tangentTrip EXCEPT
                             !.stage = "written",
                             !.writer = "KeyCopy",
                             !.angle = AngleOfValue(tangentTrip.tangentVal, weight),
                             !.weight = weight]

\* a track as Init leaves it, with one tangent of a key of a non-weighted curve
TangentInit ==
    /\ CacheInit
    /\ showRotationKeyFrames = TRUE
    /\ TrackInit({})
    /\ ToolInit
    /\ motionPathDrawMode = "world"
    /\ HostInit
    /\ CmdInit
    /\ \E angle \in Slopes, weight \in Weights, isIn \in BOOLEAN :
          tangentTrip = [NoTrip EXCEPT
                            !.stage = "key", !.angle = angle, !.weight = weight,
                            !.isIn = isIn,
                            !.original = [angle |-> angle, weight |-> weight]]

TangentNext ==
    /\ \/ ReadTangent
       \/ WriteTangent
       \/ PasteTangent
    /\ UNCHANGED <<cacheVars, ops, threePhase, otherTrack, keyVars, strokeVars,
                   toolVars, hostVars, cmdVars>>

TangentSpec == TangentInit /\ [][TangentNext]_vars

\* C20: on a non-weighted curve the tangent (angle, weight) of a key, read as
\* the local value tan(angle) * weight and written back, is the same pair
\* again, whatever the weight
C20_TangentRoundTrip ==
    tangentTrip.stage = "written" =>
        /\ tangentTrip.angle = tangentTrip.original.angle
        /\ tangentTrip.weight = tangentTrip.original.weight

\* the out-tangent of slope 1 (45 degrees) and weight 2 was read as 2 and
\* written back with slope 4 (about 76 degrees)
C20_WeightTwoSteepens ==
    /\ tangentTrip.stage = "written"
    /\ ~ tangentTrip.isIn
    /\ tangentTrip.original = [angle |-> [n |-> 1, d |-> 1],
                               weight |-> [n |-> 2, d |-> 1]]
    /\ tangentTrip.tangentVal = [n |-> 2, d |-> 1]
    /\ tangentTrip.angle = [n |-> 4, d |-> 1]

----------------------------------------------------------------------------
\* Properties of the tangent handles of boundary keys

\* the time of the first and of the last key of a curve that has keys
FirstKeyTime(curve) == curveTime(curve, 0, 0)
LastKeyTime(curve) == curveTime(curve, numKeys(curve) - 1, 0)
BoundaryKeyTime(curve, isIn) ==
    IF isIn THEN FirstKeyTime(curve) ELSE LastKeyTime(curve)

\* the other two translation axes have no key at all, or each has its own
\* first (resp. last) key at t
OthersFlatAt(c, t, isIn) ==
    LET others == TranslateCurves \ {c}
    IN \/ \A o \in others : curves[o] = {}
       \/ \A o \in others :
             curves[o] # {} /\ BoundaryKeyTime(curves[o], isIn) = t

\* the in-handle (resp. out-handle) of the record at t is hidden
HandleHidden(t, isIn) ==
    IF isIn THEN ~ keyframesCache[t].showInTangent
    ELSE ~ keyframesCache[t].showOutTangent

\* C21: outside draw mode, where a translation axis has its first (resp.
\* last) key at a time t inside the display window, the in-handle (resp.
\* out-handle) of the record at t is hidden if and only if the other two
\* translation axes both have no key at all or both have their own first
\* (resp. last) key at t
C21_BoundaryHandleHiddenIffOthersFlat ==
    (drawn = "rebuilt" /\ ~ isDrawing)
        => \A c \in TranslateCurves : \A isIn \in BOOLEAN :
               curves[c] # {}
                   => LET t == BoundaryKeyTime(curves[c], isIn)
                      IN (displayStartTime <= t /\ t <= displayEndTime)
                             => /\ t \in DOMAIN keyframesCache
                                /\ HandleHidden(t, isIn) <=> OthersFlatAt(c, t, isIn)

\* TX has its only key at frame 1 and TY its only key at frame 2, both in
\* the window: the in-handle of the record at frame 1 is hidden, although TY
\* has a key
C21_HiddenThoughOtherAxisKeyed ==
    /\ drawn = "rebuilt" /\ ~ isDrawing
    /\ curves["TX"] = {1} /\ curves["TY"] = {2} /\ curves["TZ"] = {}
    /\ 1 \in DOMAIN keyframesCache
    /\ HandleHidden(1, TRUE)

----------------------------------------------------------------------------
\* Properties of the tangents of the records

\* the component of axisName of the in- or out-tangent of a record
TangentComponent(key, axisName, isIn) ==
    IF isIn THEN key.inTangent[axisName] ELSE key.outTangent[axisName]

\* the translation axes that have a key at the time t
AxesKeyedAt(t) == {a \in {"x", "y", "z"} : t \in curves[TranslateCurveOf(a)]}

\* C22: when the read of the in or out tangent of an axis key fails during a
\* rebuild, that component of the record's tangent is 0 and the rebuild goes
\* on: the record has the key id of that axis, the time and the lock state,
\* and every other key and axis is in the cache as usual, with the tangents
\* that could be read
C22_FailedReadGivesZero ==
    drawn = "rebuilt"
        => /\ \A a \in {"x", "y", "z"} :
                 \A t \in curves[TranslateCurveOf(a)] :
                     (displayStartTime <= t /\ t <= BoundaryEnd)
                         => /\ t \in DOMAIN keyframesCache
                            /\ keyframesCache[t].time = t
                            /\ KeyIdOf(keyframesCache[t], TranslateCurveOf(a)) =
                                   KeyIndex(curves[TranslateCurveOf(a)], t)
                            /\ keyframesCache[t].tangentsLocked =
                                   (\A b \in AxesKeyedAt(t) :
                                       <<TranslateCurveOf(b), t>> \notin hostTangents.unlocked)
                            /\ \A isIn \in BOOLEAN :
                                   TangentComponent(keyframesCache[t], a, isIn) =
                                       IF TangentRead(a, t, isIn)
                                       THEN TangentValueOf(curveTangent(a, isIn).angle,
                                                           curveTangent(a, isIn).weight)
                                       ELSE Ratio(0, 1)
           /\ \A c \in RotateCurves : \A t \in curves[c] :
                 (displayStartTime <= t /\ t <= BoundaryEnd)
                     => /\ t \in DOMAIN keyframesCache
                        /\ KeyIdOf(keyframesCache[t], c) = KeyIndex(curves[c], t)

\* the read of the out-tangent of the TX key at frame 1 failed and that of its
\* in-tangent did not; the key's tangents are unlocked; the record at frame 1
\* has the key id, the in-tangent and an unlocked state, and the record of the
\* other key, at frame 2, has both of its tangents
C22_OutReadFailedRecordKept ==
    /\ drawn = "rebuilt"
    /\ hostTangents = [fails |-> {<<"TX", 1, FALSE>>}, unlocked |-> {<<"TX", 1>>}]
    /\ 1 \in DOMAIN keyframesCache /\ 2 \in DOMAIN keyframesCache
    /\ keyframesCache[1].xKeyId = 0
    /\ keyframesCache[1].outTangent.x = Ratio(0, 1)
    /\ keyframesCache[1].inTangent.x = Ratio(1, 1)
    /\ ~ keyframesCache[1].tangentsLocked
    /\ keyframesCache[2].yKeyId = 0
    /\ keyframesCache[2].inTangent.y = Ratio(2, 1)
    /\ keyframesCache[2].outTangent.y = Ratio(4, 1)
    /\ keyframesCache[2].tangentsLocked

----------------------------------------------------------------------------
\* Properties of the selection and clipboard commands

\* C23: for a curve with at least one key, a time is classified as a boundary
\* key exactly when it is the time of the first key of the curve or of its
\* last key
C23_BoundaryIsFirstOrLastKey ==
    (classified.asked /\ classified.keys # {})
        => (classified.boundary <=>
                \/ classified.time = FirstKeyTime(classified.keys)
                \/ classified.time = LastKeyTime(classified.keys))

\* the last of the three keys of a curve was classified as a boundary key
C23_LastKeyOfThreeIsBoundary ==
    /\ classified.asked
    /\ classified.keys = {0, 1, 2}
    /\ classified.time = 2
    /\ classified.boundary

\* C25: copying the selected keys to the clipboard leaves each translation
\* curve with the key times it had before the call: every temporary key is
\* removed again and no key that was there is removed
C25_CopyKeepsKeyTimes ==
    copied.made => \A c \in TranslateCurves : curves[c] = copied.before[c]

\* TX had its only key at frame 0 and the keys selected were those at the
\* frames 1 and 2; three key indices were noted for removal and the temporary
\* keys at the frames 1 and 2 are still on TX after the call
C25_TemporaryKeysLeft ==
    /\ copied.made
    /\ copied.before["TX"] = {0}
    /\ copied.times = <<1, 2>>
    /\ Len(copied.xKeys) = 3
    /\ curves["TX"] = {0, 1, 2}

\* the last press of the edit tool was Ctrl+Left on a key
CtrlLeftOnKey ==
    /\ editTool.pressed.hit = "key"
    /\ editTool.pressed.button = "left"
    /\ editTool.pressed.ctrl

\* C24: in the edit tool with Caps Lock off, Ctrl+Left-click on a key toggles
\* the selection of that key and leaves the selection of every other key as
\* it was
C24_CtrlClickTogglesKey ==
    CtrlLeftOnKey
        => LET time == editTool.pressed.time
               before == editTool.pressed.before
           IN selectedKeyTimes =
                  IF time \in before THEN before \ {time} ELSE before \cup {time}

\* the key at frame 1 was not selected, it was clicked with Ctrl+Left and the
\* button released, and it is still not selected
C24_CtrlClickLeftKeyUnselected ==
    /\ CtrlLeftOnKey
    /\ editTool.pressed.time = 1
    /\ 1 \notin editTool.pressed.before
    /\ ~ editTool.capsLockValid
    /\ 1 \notin selectedKeyTimes


\* Properties of the two ways of carrying out a full rebuild

\* the maps the two procedures leave for the frames startFrame..endFrame,
\* started on the cache as it is and on the scene as it is
PipelineMap(startFrame, endFrame) ==
    ThreePhaseRebuild(CacheSt(pMatrixCache, <<>>), startFrame,
                      endFrame - startFrame + 1).cache
SequentialMap(startFrame, endFrame) ==
    EnsureLoop(CacheSt(pMatrixCache, <<>>), startFrame, endFrame).cache

\* C26: whenever cacheRange(start, end) carries out a full rebuild over more
\* than PARALLEL_MIN_FRAMES frames, the three-phase pipeline (the build with
\* _OPENMP) and the single sequential pass (the build without), started on the
\* same cache and the same scene, leave the same map (the cached range and the
\* validity flag are set by the code after either of them).
C26_PipelineEqualsSequentialPass ==
    [][(IsCacheRangeStep /\ call'.path \in FullRebuildPaths
          /\ call'.end - call'.start + 1 > PARALLEL_MIN_FRAMES)
         => PipelineMap(call'.start, call'.end) = SequentialMap(call'.start, call'.end)]_vars

\* C26 (case): an invalid cache holds the entry ensureAtTime stored at the
\* first frame before the scene was edited; over more than PARALLEL_MIN_FRAMES
\* frames the pipeline replaces it, the sequential pass keeps it
C26_StaleEntryRewrittenByPipelineOnly ==
    LET first == Tick(TimelineStart)
        last == TimelineStart + PARALLEL_MIN_FRAMES
    IN /\ ~pMatrixCacheValid
       /\ first \in DOMAIN pMatrixCache
       /\ pMatrixCache[first] # getPMatrixAtTime(first)
       /\ PipelineMap(TimelineStart, last)[first] = getPMatrixAtTime(first)
       /\ SequentialMap(TimelineStart, last)[first] = pMatrixCache[first]


\* Properties of the draw gesture

\* the last release of a draw gesture had the claim's preconditions: at least
\* two samples, keyframe count and frame interval at least 1, world-space display
DrawnInWorldSpace ==
    /\ drawRelease.made
    /\ drawRelease.totalPoints >= 2
    /\ drawRelease.keyframeCount >= 1
    /\ drawRelease.frameInterval >= 1
    /\ ~ drawRelease.cameraSpace

\* the end of the range such a release draws over
DrawnRangeEnd ==
    drawRelease.selectedTime + drawRelease.keyframeCount * drawRelease.frameInterval

\* t lies inside (t0, t0 + n*d]
InDrawnRange(t) == t > drawRelease.selectedTime /\ t <= DrawnRangeEnd

\* C27: after the release of a draw gesture anchored at t0 with at least two
\* samples, n >= 1 keys and interval d >= 1 in world-space display, each
\* translation curve has inside (t0, t0+n*d] exactly the keys t0+d, ..., t0+n*d;
\* the key at t0 and the keys outside the range are kept; every sample index
\* used lies in 1 .. samples-1 and the indices do not decrease with the key number.
C27_DrawGestureKeys ==
    DrawnInWorldSpace =>
        LET t0 == drawRelease.selectedTime
            n == drawRelease.keyframeCount
            d == drawRelease.frameInterval
            index == drawRelease.pointIndex
        IN /\ \A c \in TranslateCurves :
                 /\ {t \in drawRelease.after[c] : InDrawnRange(t)}
                        = {t0 + k * d : k \in 1 .. n}
                 /\ \A t \in drawRelease.before[c] :
                        ~ InDrawnRange(t) => t \in drawRelease.after[c]
           /\ DOMAIN index = 1 .. n
           /\ \A k \in 1 .. n :
                 /\ index[k] >= 1
                 /\ index[k] <= drawRelease.totalPoints - 1
                 /\ k > 1 => index[k - 1] <= index[k]

\* C27 (case): a draw gesture of four samples anchored at the key of frame 1
\* added two keys one frame apart from the samples 1 and 2 in place of the keys
\* of the frames 2 and 3
C27_TwoKeysFromFourSamples ==
    /\ DrawnInWorldSpace
    /\ drawRelease.selectedTime = 1
    /\ drawRelease.totalPoints = 4
    /\ drawRelease.keyframeCount = 2
    /\ drawRelease.frameInterval = 1
    /\ drawRelease.pointIndex = <<1, 2>>
    /\ drawRelease.before["TX"] = {1, 2, 3}
    /\ drawRelease.after["TX"] = {1, 2, 3}
    /\ 2 \in drawRelease.before["RX"] /\ 2 \notin drawRelease.after["RX"]


\* Properties of the interactive locked mode

\* the step is the refresh block of a draw made with the notification pending
\* in interactive locked mode
IsPendingDraw ==
    /\ locked.pc = "idle" /\ locked'.pc = "body"
    /\ locked.lockedModeInteractive
    /\ locked.worldSpaceCallbackCalled

\* the refresh block cleared the cache, rebuilt it and then reset the flag
ClearedRebuiltReset ==
    locked'.steps = <<"clearParentMatrixCache",
                      "cacheParentMatrixRangeForWorldCallback",
                      "setWorldSpaceCallbackCalled">>

\* C28: in interactive locked mode a pending flag stays set across every draw
\* made while the left mouse button is held; a draw made with the left button
\* not held clears the parent matrix cache, rebuilds it and only then resets
\* the flag; the flag is never reset without the cache having been cleared in
\* that same draw.
C28_PendingUntilLeftButtonUp ==
    [][/\ (IsPendingDraw /\ "left" \in locked.mouseButtons)
            => locked'.worldSpaceCallbackCalled
       /\ (IsPendingDraw /\ "left" \notin locked.mouseButtons)
            => (ClearedRebuiltReset /\ ~ locked'.worldSpaceCallbackCalled)
       /\ (locked.worldSpaceCallbackCalled /\ ~ locked'.worldSpaceCallbackCalled)
            => (locked'.pc = "body" /\ ClearedRebuiltReset)]_vars

\* C28 (exactly the left button): the same with "the left button is held" read
\* as "the left button and no other is held"
C28_PendingWhileOnlyLeftHeld ==
    [][/\ (IsPendingDraw /\ locked.mouseButtons = {"left"})
            => locked'.worldSpaceCallbackCalled
       /\ (IsPendingDraw /\ locked.mouseButtons # {"left"})
            => (ClearedRebuiltReset /\ ~ locked'.worldSpaceCallbackCalled)
       /\ (locked.worldSpaceCallbackCalled /\ ~ locked'.worldSpaceCallbackCalled)
            => (locked'.pc = "body" /\ ClearedRebuiltReset)]_vars

\* C28 (case): a draw made with the left and the middle button held found the
\* flag set, cleared and rebuilt the cache and reset the flag
C28_ResetWithLeftAndMiddleHeld ==
    /\ locked.lockedModeInteractive
    /\ locked.pc = "body"
    /\ locked.calledAtDraw
    /\ locked.heldAtDraw = {"left", "middle"}
    /\ ~ locked.worldSpaceCallbackCalled
    /\ locked.steps # <<>>


\* Properties of the entries of the parent matrix cache under the commands

\* the entry for the time t is a matrix the scene accessors gave for t
IsEvaluation(t) == \E s \in {0, 1} : pMatrixCache[t] = Mat(t, s)

\* C29: every entry of the parent matrix cache was produced by evaluating the
\* scene accessor for its time: no paste, clipboard copy or draw leaves an
\* entry made by looking up a time that was not cached.
C29_EntriesAreEvaluations ==
    \A t \in DOMAIN pMatrixCache : IsEvaluation(t)

\* C29 (case): a paste with offset at a time that had no entry left the
\* default matrix there, which the ensure for the first pasted key then kept
C29_PasteLeftDefaultMatrix ==
    /\ copied.paste.made
    /\ copied.paste.offset
    /\ ~ copied.paste.cached
    /\ Tick(copied.paste.time) \in DOMAIN pMatrixCache
    /\ pMatrixCache[Tick(copied.paste.time)] = Identity
    /\ copied.paste.time \in curves["TX"]


----------------------------------------------------------------------------
\* Properties of the undo recording around the gestures of the draw tool

\* C30: in every press ... release gesture of the draw tool, undo recording
\* is stopped at the release if and only if it was started earlier in that
\* same gesture, whatever the button, the modifier, the display mode and the
\* outcome of the conversions: once the release handler has run, the gesture
\* has made as many stop calls as start calls.
C30_StoppedIffStarted ==
    undoCalls.released => (undoCalls.stopped = undoCalls.started)

\* a stroke released in the camera-space display whose conversion failed: the
\* recording was started at the press and the release did not stop it
C30_StartedNeverStopped ==
    /\ undoCalls.released
    /\ undoCalls.started = 1
    /\ undoCalls.stopped = 0
    /\ motionPathDrawMode = "camera"
    /\ ~walk.returned

====
